---- MODULE Spec2Model ----
(***************************************************************************)
(* Verification model of the reviewlens review pipeline: the unified-diff  *)
(* hunk parser, the rule scanners with their inline-suppression protocol,  *)
(* the redactor, ReviewEngine::run and the `check` command around it.      *)
(*                                                                         *)
(* Abstractions.  A source line is a record saying which of the rules'     *)
(* regular expressions match it (hit), which rule an ignore directive on   *)
(* it names (dir) and whether the line starts with `//` (comment).  A hunk *)
(* body line is represented by its first character (tag).  Formatted       *)
(* strings ("path:line - desc", "path (risk n)") are records of the        *)
(* formatted fields.                                                       *)
(***************************************************************************)
EXTENDS Integers, Sequences, FiniteSets, TLC

(***************************************************************************)
(* Bounds of the model                                                     *)
(***************************************************************************)
MaxChurn == 2
MaxHunkLines == 4
MaxScanLines == 2
MaxTextLen == 3
MaxPatterns == 2
MaxTokenUsage == 2

(***************************************************************************)
(* Program constants                                                       *)
(***************************************************************************)
HotspotLimit == 5

None == "none"
\* Option<u32>::None of budget.tokens.max_per_run
NoBudget == -1

VARIABLES
  \* ---- ReviewEngine::run and the check command ----
  cfg,            \* the engine's Config (immutable after construction)
  diff,           \* the diff text, as file segments with raw hunk bodies
  disk,           \* working tree: path -> content or Missing
  pc,             \* position of the check command / run
  runNo,          \* 1 for the first run(), 2 for a second run() on the same engine
  files,          \* filtered_files
  fileIdx,        \* index of the next file the scan loop handles
  churn_counts,   \* path -> Added + Removed lines
  issues,         \* run's `issues` vector
  code_quality,   \* run's `code_quality` vector
  hotspots,       \* run's `hotspots` vector
  contexts,       \* retrieval snippets accumulated for the prompt
  used,           \* total_tokens_used
  generateCalls,  \* number of LlmProvider::generate invocations so far
  result,         \* what run returned: [ok |-> TRUE, ...report] or [ok |-> FALSE, err...]
  first,          \* result of the first run (kept when run is called again)
  reportFile,     \* content of the report file, NoResult while not written
  execResult,     \* what check::execute returned
  args,           \* CheckArgs: the --fail-on option
  exitCode,       \* exit code of check::run, -1 while running
  \* ---- diff_parser::parse_hunk and the added-set walk ----
  hunkIn, hunkOut, changed_lines, dpc,
  \* ---- Scanner::scan on one file ----
  scanIn, scanWho, scanOut, spc,
  \* ---- redact_text ----
  redCfg, redIn, redOut, rpc,
  redTwice,       \* redact_text applied to its own result
  \* ---- diff_parser::parse on a diff text ----
  segsIn,         \* the file segments the diff text is rendered from
  parseOut,       \* what parse returned
  ppc,
  \* ---- rag::index_repository and the index file ----
  repo,           \* files under the indexed root: path -> [exists, modified, content]
  idxCfg,         \* allow, deny, and whether the output path lies under the root
  idxFile,        \* the file at the output path
  idxPrev,        \* the file at the output path when the current run started
  idxNew,         \* store.documents of the current run
  embedded,       \* files the current run (re)ingested
  idxRuns,        \* index runs that returned a store
  clock,          \* the filesystem's time
  force,          \* the force argument of the current run
  repoAtRun,      \* the files as they were when the last run returned
  ipc,
  \* ---- the conventions rule over the files of one run ----
  convWho,        \* which conventions scanner the engine holds
  convIndex,      \* the index file now on disk
  convGuard,      \* ConventionsScanner.baseline, the cached baseline
  convUsed,       \* the baseline each scanned file was judged against
  convDerived,    \* how often a baseline was derived from the index
  cpc,
  \* ---- the scanner registry under concurrent ReviewEngine::new ----
  onceState,      \* INIT: "new", "running" or "done"
  registry,       \* REGISTRY: the registered scanner names
  regLock,        \* the thread holding REGISTRY's mutex, 0 if none
  regStep,        \* the next built-in the registration closure registers
  regRuns,        \* executions of the registration closure
  tpc,            \* per thread: position in load_enabled_scanners
  tcfg,           \* per thread: the rules its config enables
  tscanners,      \* per thread: the scanners pushed so far
  \* ---- parse_ignore_directives on a file text ----
  ignIn,          \* the lines of the file
  ignMap,         \* the IgnoreMap returned
  gpc,
  \* ---- ReviewEngine::run, building the prompt and calling generate ----
  prIssues,       \* the issues found, as texts
  prContexts,     \* the contexts retrieved
  prDraft,        \* the first `prompt` binding
  prompt,         \* the second `prompt` binding, which shadows the first
  prSent,         \* the prompts passed to generate so far
  qpc

engineVars == <<cfg, diff, disk, pc, runNo, files, fileIdx, churn_counts, issues,
                code_quality, hotspots, contexts, used, generateCalls, result,
                first, reportFile, execResult, args, exitCode>>
diffVars == <<hunkIn, hunkOut, changed_lines, dpc>>
scanVars == <<scanIn, scanWho, scanOut, spc>>
redactVars == <<redCfg, redIn, redOut, rpc, redTwice>>
parseVars == <<segsIn, parseOut, ppc>>
indexVars == <<repo, idxCfg, idxFile, idxPrev, idxNew, embedded, idxRuns, clock,
               force, repoAtRun, ipc>>
convVars == <<convWho, convIndex, convGuard, convUsed, convDerived, cpc>>
regVars == <<onceState, registry, regLock, regStep, regRuns, tpc, tcfg, tscanners>>
ignVars == <<ignIn, ignMap, gpc>>
promptVars == <<prIssues, prContexts, prDraft, prompt, prSent, qpc>>
lateVars == <<convVars, regVars, ignVars, promptVars>>
vars == <<engineVars, diffVars, scanVars, redactVars, parseVars, indexVars, lateVars>>

(***************************************************************************)
(* Generic sequence helpers                                                *)
(***************************************************************************)
Range(s) == {s[i] : i \in DOMAIN s}

SeqsUpTo(S, n) == UNION {[1..k -> S] : k \in 0..n}

RECURSIVE Perms(_)
Perms(S) == IF S = {} THEN {<<>>}
            ELSE UNION {{<<x>> \o p : p \in Perms(S \ {x})} : x \in S}

RECURSIVE SelectIdx(_, _, _)
\* the indices i >= from of s, in order, for which keep[i] holds
SelectIdx(s, keep, from) ==
  IF from > Len(s) THEN <<>>
  ELSE (IF keep[from] THEN <<s[from]>> ELSE <<>>) \o SelectIdx(s, keep, from + 1)

Min(a, b) == IF a < b THEN a ELSE b

(***************************************************************************)
(* config.rs: Severity                                                     *)
(***************************************************************************)
Severity == {"critical", "high", "medium", "low"}

as_u8(s) == CASE s = "critical" -> 4
              [] s = "high" -> 3
              [] s = "medium" -> 2
              [] s = "low" -> 1

SevGe(a, b) == as_u8(a) >= as_u8(b)

default_fail_on == "low"

(***************************************************************************)
(* scanner/mod.rs: ignore directives                                       *)
(***************************************************************************)
\* Scanners in the order load_enabled_scanners materializes them.
ScannerOrder == <<"secrets", "sql-injection-go", "http-timeouts-go",
                  "convention-deviation", "server-xss-go">>
Scanners == Range(ScannerOrder)

\* The rule identifier the specification gives each scanner.
RuleId(sc) == IF sc = "convention-deviation" THEN "conventions" ELSE sc
RuleIds == {RuleId(sc) : sc \in Scanners}

HitKinds == {"secret", "sql", "http", "conv", "fn", "tmpl", "write"}

\* target line of the directive found on line i (1-based), lines 53-57
IgnoreTarget(content, i) == IF content[i].comment THEN i + 1 ELSE i

parse_ignore_directives(content) ==
  [t \in {IgnoreTarget(content, i) : i \in {j \in DOMAIN content : content[j].dir # None}} |->
     {content[i].dir : i \in {j \in DOMAIN content :
                                 content[j].dir # None /\ IgnoreTarget(content, j) = t}}]

find_ignore(map, line, rule) == line \in DOMAIN map /\ rule \in map[line]

(***************************************************************************)
(* scanner: the built-in rules                                             *)
(***************************************************************************)
Issue(title, description, path, line, severity) ==
  [title |-> title, description |-> description, file_path |-> path,
   line_number |-> line, severity |-> severity]

\* secrets.rs, body of the per-line loop of SecretsScanner::scan
SecretsLine(path, i, line, ignores, c) ==
  IF "secret" \in line.hit
  THEN <<Issue("Potential Secret Found", "secret", path, i, c.rules["secrets"].severity)>>
  ELSE <<>>

\* scanner/mod.rs, body of the per-line loop of SqlInjectionGoScanner::scan
SqlLine(path, i, line, ignores, c) ==
  IF "sql" \in line.hit /\ ~find_ignore(ignores, i, "sql-injection-go")
  THEN <<Issue("Potential SQL Injection", "sql", path, i,
               c.rules["sql-injection-go"].severity)>>
  ELSE <<>>

\* scanner/mod.rs, body of the per-line loop of HttpTimeoutsGoScanner::scan
HttpLine(path, i, line, ignores, c) ==
  IF "http" \in line.hit /\ ~find_ignore(ignores, i, "http-timeouts-go")
  THEN <<Issue("HTTP Request Without Timeout", "http", path, i,
               c.rules["http-timeouts-go"].severity)>>
  ELSE <<>>

\* server_xss_go.rs, body of the per-line loop: two independent checks
XssLine(path, i, line, ignores, c) ==
  (IF "tmpl" \in line.hit /\ ~find_ignore(ignores, i, "server-xss-go")
   THEN <<Issue("text/template used for HTML", "tmpl", path, i,
                c.rules["server-xss-go"].severity)>>
   ELSE <<>>)
  \o
  (IF "write" \in line.hit /\ ~find_ignore(ignores, i, "server-xss-go")
   THEN <<Issue("Unescaped user input written to ResponseWriter", "write", path, i,
                c.rules["server-xss-go"].severity)>>
   ELSE <<>>)

\* convention_deviation.rs, body of the per-line loop.  idx is the loaded
\* index: idx.patterns says that derive_patterns yields the pattern the
\* "conv" lines match, idx.require_result is derive_patterns' second result.
ConvDevLine(path, i, line, ignores, c, idx) ==
  IF idx.patterns /\ "conv" \in line.hit
  THEN IF find_ignore(ignores, i, "convention-deviation") THEN <<>>
       ELSE <<Issue("Convention deviation detected", "conv", path, i,
                    c.rules["convention-deviation"].severity)>>
  ELSE IF idx.require_result /\ "fn" \in line.hit
       THEN IF find_ignore(ignores, i, "convention-deviation") THEN <<>>
            ELSE <<Issue("Convention deviation detected", "fn", path, i,
                         c.rules["convention-deviation"].severity)>>
       ELSE <<>>

\* the index file: absent, not deserializable, or a store with documents
Index(state, patterns, require_result, docs) ==
  [state |-> state, patterns |-> patterns, require_result |-> require_result,
   docs |-> docs]
AbsentIndex == Index("absent", FALSE, FALSE, 0)
CorruptIndex == Index("corrupt", FALSE, FALSE, 0)
EmptyIndex == Index("ok", FALSE, FALSE, 0)

\* InMemoryVectorStore::load_from_disk / serde_json::from_str succeed
IndexLoadable(idx) == idx.state = "ok"

LineIssues(sc, path, i, line, ignores, c, idx) ==
  CASE sc = "secrets" -> SecretsLine(path, i, line, ignores, c)
    [] sc = "sql-injection-go" -> SqlLine(path, i, line, ignores, c)
    [] sc = "http-timeouts-go" -> HttpLine(path, i, line, ignores, c)
    [] sc = "server-xss-go" -> XssLine(path, i, line, ignores, c)
    [] sc = "convention-deviation" ->
         IF IndexLoadable(idx) THEN ConvDevLine(path, i, line, ignores, c, idx) ELSE <<>>

RECURSIVE ScanFrom(_, _, _, _, _, _, _)
ScanFrom(sc, path, content, ignores, c, idx, i) ==
  IF i > Len(content) THEN <<>>
  ELSE LineIssues(sc, path, i, content[i], ignores, c, idx)
       \o ScanFrom(sc, path, content, ignores, c, idx, i + 1)

\* Scanner::scan(file_path, content, config); idx is the index file the
\* convention scanner reads.
Scan(sc, path, content, c, idx) ==
  ScanFrom(sc, path, content, parse_ignore_directives(content), c, idx, 1)

\* scanner/mod.rs load_enabled_scanners: the enabled scanners, in order
load_enabled_scanners(c) ==
  SelectIdx(ScannerOrder, [i \in DOMAIN ScannerOrder |-> c.rules[ScannerOrder[i]].enabled], 1)

(***************************************************************************)
(* diff_parser.rs: hunks                                                   *)
(***************************************************************************)
\* first character of a hunk body line: '+', '-', ' ', '\', none (empty
\* line), or any other character
Tags == {"+", "-", " ", "\\", "", "x"}

\* parse_hunk's match on the first character
LineKind(tag) == CASE tag = "+" -> "Added"
                   [] tag = "-" -> "Removed"
                   [] tag = " " -> "Context"
                   [] tag = "\\" -> "Context"
                   [] tag = "" -> "Context"
                   [] OTHER -> "Invalid"

\* parse_hunk: the hunk, or a DiffParser error
parse_hunk(h) ==
  IF \E i \in DOMAIN h.raw : LineKind(h.raw[i]) = "Invalid"
  THEN [ok |-> FALSE, err |-> "DiffParser"]
  ELSE [ok |-> TRUE, new_start |-> h.new_start,
        lines |-> [i \in DOMAIN h.raw |-> LineKind(h.raw[i])]]

\* lib.rs: the cursor walk over one hunk, from line index i with cursor new_line
RECURSIVE WalkHunk(_, _, _)
WalkHunk(lines, i, new_line) ==
  IF i > Len(lines) THEN {}
  ELSE CASE lines[i] = "Added" -> {new_line} \cup WalkHunk(lines, i + 1, new_line + 1)
         [] lines[i] = "Context" -> WalkHunk(lines, i + 1, new_line + 1)
         [] lines[i] = "Removed" -> WalkHunk(lines, i + 1, new_line)

\* lib.rs: changed_lines of a file
ChangedLines(hunks) ==
  UNION {WalkHunk(hunks[k].lines, 1, hunks[k].new_start) : k \in DOMAIN hunks}

\* lib.rs: churn of a file, Added + Removed over all hunks
Churn(hunks) ==
  LET n(k) == Cardinality({i \in DOMAIN hunks[k].lines :
                              hunks[k].lines[i] \in {"Added", "Removed"}})
      sum[k \in 0..Len(hunks)] == IF k = 0 THEN 0 ELSE sum[k - 1] + n(k)
  IN sum[Len(hunks)]

(***************************************************************************)
(* lib.rs: redact_text.  A text is a sequence of cells [ch, ins]: ch is    *)
(* the character, ins is an auxiliary mark telling that the character was  *)
(* written by a replacement; it never influences the result.  A pattern is *)
(* a literal string; a pattern containing "(" does not compile.            *)
(***************************************************************************)
Cell(c) == [ch |-> c, ins |-> FALSE]
Text(str) == [i \in DOMAIN str |-> Cell(str[i])]
Chars(text) == [i \in DOMAIN text |-> text[i].ch]

REDACTION_PLACEHOLDER ==
  [i \in 1..10 |-> [ch |-> <<"[", "R", "E", "D", "A", "C", "T", "E", "D", "]">>[i],
                    ins |-> TRUE]]

\* Regex::new(pattern).is_ok()
RegexCompiles(p) == "(" \notin Range(p)

\* the pattern matches the text at position i
MatchAt(text, p, i) ==
  /\ i + Len(p) - 1 <= Len(text)
  /\ \A k \in DOMAIN p : text[i + k - 1].ch = p[k]

\* Regex::replace_all: leftmost non-overlapping matches.  The scan over the
\* positions lo..hi-1, entered at position i, split in halves: `out` is the
\* text it produces, `next` the position at which the scan goes on.
RECURSIVE ReplaceFrom(_, _, _, _, _)
ReplaceFrom(text, p, lo, hi, i) ==
  IF i >= hi THEN [out |-> <<>>, next |-> i]
  ELSE IF hi - lo = 1
       THEN IF MatchAt(text, p, i)
            THEN [out |-> REDACTION_PLACEHOLDER, next |-> i + Len(p)]
            ELSE [out |-> <<text[i]>>, next |-> i + 1]
       ELSE LET mid == lo + (hi - lo) \div 2
                left == ReplaceFrom(text, p, lo, mid, i)
                right == ReplaceFrom(text, p, mid, hi, left.next)
            IN [out |-> left.out \o right.out, next |-> right.next]

\* Regex::replace (first match only)
RECURSIVE ReplaceFirstFrom(_, _, _)
ReplaceFirstFrom(text, p, i) ==
  IF i > Len(text) THEN <<>>
  ELSE IF MatchAt(text, p, i)
       THEN REDACTION_PLACEHOLDER \o SubSeq(text, i + Len(p), Len(text))
       ELSE <<text[i]>> \o ReplaceFirstFrom(text, p, i + 1)

\* variant: Regex::replace, only the first match is replaced
ReplaceFirstOnly(text, p) == ReplaceFirstFrom(text, p, 1)

replace_all(text, p) == ReplaceFrom(text, p, 1, Len(text) + 1, 1).out

\* the loop over the configured patterns, from pattern k
RECURSIVE RedactLoop(_, _, _)
RedactLoop(patterns, text, k) ==
  IF k > Len(patterns) THEN text
  ELSE RedactLoop(patterns,
                  IF RegexCompiles(patterns[k]) THEN replace_all(text, patterns[k]) ELSE text,
                  k + 1)

redact_text(rc, text) ==
  IF ~rc.enabled \/ rc.patterns = <<>> THEN text
  ELSE RedactLoop(rc.patterns, text, 1)

(***************************************************************************)
(* config.rs: Config                                                       *)
(***************************************************************************)
AllPaths == {"a.go", "b.go", "w1.go", "w2.go", "w3.go", "w4.go", "w5.go", "w6.go"}

DefaultRules ==
  [sc \in Scanners |->
     CASE sc = "secrets" -> [enabled |-> TRUE, severity |-> "high"]
       [] sc = "sql-injection-go" -> [enabled |-> TRUE, severity |-> "critical"]
       [] sc = "http-timeouts-go" -> [enabled |-> TRUE, severity |-> "medium"]
       [] OTHER -> [enabled |-> TRUE, severity |-> "medium"]]

default_severity_weight == 3
default_churn_weight == 1

DefaultCfg ==
  [provider |-> "null", max_per_run |-> NoBudget,
   sev_w |-> default_severity_weight, churn_w |-> default_churn_weight,
   fail_on |-> default_fail_on, rules |-> DefaultRules,
   globs_valid |-> TRUE, allow |-> AllPaths, deny |-> {},
   index |-> "idx", legacy_index_path |-> None, llm_ready |-> TRUE]

\* llm/mod.rs create_llm_provider: a remote provider needs api_key and model
create_llm_provider(c) ==
  IF c.provider = "null" \/ c.llm_ready THEN [ok |-> TRUE, err |-> None]
  ELSE [ok |-> FALSE, err |-> "Config"]

\* Config::index_path
index_path(c) == IF c.index # None THEN c.index ELSE c.legacy_index_path

(***************************************************************************)
(* Idle values of the variable groups a specification does not use         *)
(***************************************************************************)
NoResult == [ok |-> FALSE, err |-> None]

EngineIdle ==
  /\ cfg = DefaultCfg /\ diff = <<>> /\ disk = [tree |-> <<>>, index |-> AbsentIndex]
  /\ pc = "idle" /\ runNo = 1 /\ files = <<>> /\ fileIdx = 1 /\ churn_counts = <<>>
  /\ issues = <<>> /\ code_quality = <<>> /\ hotspots = <<>> /\ contexts = <<>>
  /\ used = 0 /\ generateCalls = 0 /\ result = NoResult /\ first = NoResult
  /\ reportFile = NoResult /\ execResult = NoResult /\ args = [fail_on |-> None]
  /\ exitCode = -1

DiffIdle == hunkIn = [new_start |-> 1, raw |-> <<>>] /\ hunkOut = NoResult
            /\ changed_lines = {} /\ dpc = "idle"

ScanIdle == scanIn = [content |-> <<>>, index |-> AbsentIndex] /\ scanWho = None
            /\ scanOut = <<>> /\ spc = "idle"

RedactIdle == redCfg = [enabled |-> FALSE, patterns |-> <<>>] /\ redIn = <<>>
              /\ redOut = <<>> /\ rpc = "idle" /\ redTwice = <<>>
ParseIdle == segsIn = <<>> /\ parseOut = NoResult /\ ppc = "idle"
NoBlob == [state |-> "absent", docs |-> <<>>, modified |-> 0]
NoBaseline == [some |-> FALSE, patterns |-> FALSE, require_result |-> FALSE]
ConvIdle ==
  /\ convWho = None /\ convIndex = AbsentIndex /\ convGuard = NoBaseline
  /\ convUsed = <<>> /\ convDerived = 0 /\ cpc = "idle"
RegIdle ==
  /\ onceState = "new" /\ registry = {} /\ regLock = 0 /\ regStep = 1 /\ regRuns = 0
  /\ tpc = <<>> /\ tcfg = <<>> /\ tscanners = <<>>
IgnIdle == ignIn = <<>> /\ ignMap = <<>> /\ gpc = "idle"
PromptIdle ==
  /\ prIssues = <<>> /\ prContexts = <<>> /\ prDraft = <<>> /\ prompt = <<>>
  /\ prSent = <<>> /\ qpc = "idle"
LateIdle == ConvIdle /\ RegIdle /\ IgnIdle /\ PromptIdle
IndexIdle ==
  /\ repo = <<>> /\ idxCfg = [allow |-> {}, deny |-> {}, inside |-> FALSE]
  /\ idxFile = NoBlob /\ idxPrev = NoBlob /\ idxNew = <<>>
  /\ embedded = {} /\ idxRuns = 0 /\ clock = 1 /\ force = FALSE
  /\ repoAtRun = <<>> /\ ipc = "idle"

(***************************************************************************)
(* Specification SpecDiff: parse_hunk followed by the engine's cursor walk *)
(***************************************************************************)
\* A "\ No newline at end of file" marker only ever follows a hunk line.
WellFormedRaw(raw) ==
  \A i \in DOMAIN raw :
    raw[i] = "\\" => i > 1 /\ raw[i - 1] \in {"+", "-", " "}

InitDiff ==
  /\ hunkIn \in {[new_start |-> n, raw |-> r] :
                   n \in 1..2,
                   r \in {q \in SeqsUpTo(Tags, MaxHunkLines) : q # <<>> /\ WellFormedRaw(q)}}
  /\ hunkOut = NoResult /\ changed_lines = {} /\ dpc = "parse"
  /\ EngineIdle /\ ScanIdle /\ RedactIdle /\ ParseIdle /\ IndexIdle /\ LateIdle

ParseHunkOk ==
  /\ dpc = "parse" /\ parse_hunk(hunkIn).ok
  /\ hunkOut' = parse_hunk(hunkIn)
  /\ dpc' = "walk"
  /\ UNCHANGED <<hunkIn, changed_lines, engineVars, parseVars, indexVars, lateVars, scanVars, redactVars>>

ParseHunkErr ==
  /\ dpc = "parse" /\ ~parse_hunk(hunkIn).ok
  /\ hunkOut' = parse_hunk(hunkIn)
  /\ dpc' = "error"
  /\ UNCHANGED <<hunkIn, changed_lines, engineVars, parseVars, indexVars, lateVars, scanVars, redactVars>>

WalkAdded ==
  /\ dpc = "walk"
  /\ changed_lines' = ChangedLines(<<hunkOut>>)
  /\ dpc' = "done"
  /\ UNCHANGED <<hunkIn, hunkOut, engineVars, parseVars, indexVars, lateVars, scanVars, redactVars>>

NextDiff == ParseHunkOk \/ ParseHunkErr \/ WalkAdded

SpecDiff == InitDiff /\ [][NextDiff]_vars

(***************************************************************************)
(* Specification SpecScan: one scanner applied to one file                 *)
(***************************************************************************)
\* the hit kinds a scanner's regular expressions are about
HitsOf(sc) == CASE sc = "secrets" -> {{}, {"secret"}}
                [] sc = "sql-injection-go" -> {{}, {"sql"}}
                [] sc = "http-timeouts-go" -> {{}, {"http"}}
                [] sc = "server-xss-go" -> {{}, {"tmpl"}, {"write"}, {"tmpl", "write"}}
                [] sc = "convention-deviation" -> {{}, {"conv"}, {"fn"}, {"conv", "fn"}}

DirsOf(sc) == {RuleId(sc), sc, "other-rule"}

ScanLines(sc) ==
  {[hit |-> h, dir |-> None, comment |-> FALSE] : h \in HitsOf(sc)}
  \cup {[hit |-> h, dir |-> d, comment |-> cm] :
          h \in HitsOf(sc), d \in DirsOf(sc), cm \in BOOLEAN}

IndexSamples ==
  {AbsentIndex, CorruptIndex,
   Index("ok", TRUE, FALSE, 1), Index("ok", FALSE, TRUE, 1)}

InitScan ==
  /\ scanWho \in Scanners
  /\ scanIn \in {[content |-> ct, index |-> ix] :
                   ct \in UNION {[1..k -> ScanLines(scanWho)] : k \in 1..MaxScanLines},
                   ix \in IF scanWho = "convention-deviation" THEN IndexSamples
                          ELSE {AbsentIndex}}
  /\ scanOut = <<>> /\ spc = "ready"
  /\ EngineIdle /\ DiffIdle /\ RedactIdle /\ ParseIdle /\ IndexIdle /\ LateIdle

DoScan ==
  /\ spc = "ready"
  /\ scanOut' = Scan(scanWho, "f.go", scanIn.content, DefaultCfg, scanIn.index)
  /\ spc' = "done"
  /\ UNCHANGED <<scanIn, scanWho, engineVars, parseVars, indexVars, lateVars, diffVars, redactVars>>

NextScan == DoScan

SpecScan == InitScan /\ [][NextScan]_vars

(***************************************************************************)
(* Specification SpecRedact: redact_text applied to the serialized report, *)
(* as check::execute does before writing the report file                   *)
(***************************************************************************)
TextAlphabet == {"a", "b", "R"}

\* literal patterns; "(" alone is a pattern Regex::new rejects
PatternSamples ==
  {<<"a">>, <<"b">>, <<"R">>, <<"a", "b">>, <<"b", "a">>, <<"a", "a">>,
   <<"R", "a">>, <<"(">>}

InitRedact ==
  /\ redCfg \in {[enabled |-> e, patterns |-> ps] :
                   e \in BOOLEAN, ps \in SeqsUpTo(PatternSamples, MaxPatterns)}
  /\ redIn \in {Text(t) : t \in SeqsUpTo(TextAlphabet, MaxTextLen)}
  /\ redOut = <<>> /\ rpc = "ready" /\ redTwice = <<>>
  /\ EngineIdle /\ DiffIdle /\ ScanIdle /\ ParseIdle /\ IndexIdle /\ LateIdle

RedactReport ==
  /\ rpc = "ready"
  /\ redOut' = redact_text(redCfg, redIn)
  /\ rpc' = "written"
  /\ UNCHANGED <<redCfg, redIn, redTwice, engineVars, parseVars, indexVars, lateVars, diffVars, scanVars>>

\* redact_text(cfg, redact_text(cfg, x))
RedactAgain ==
  /\ rpc = "written"
  /\ redTwice' = redact_text(redCfg, redOut)
  /\ rpc' = "again"
  /\ UNCHANGED <<redCfg, redIn, redOut, engineVars, parseVars, indexVars, lateVars, diffVars, scanVars>>

NextRedact == RedactReport \/ RedactAgain

SpecRedact == InitRedact /\ [][NextRedact]_vars

(***************************************************************************)
(* lib.rs: ReviewEngine::run, helpers                                      *)
(***************************************************************************)
\* GlobSet::is_match: allow and deny are the sets of paths their globs match
\* (the default allow glob "**/*" matches every path)
AllowMatch(c, path) == path \in c.allow
DenyMatch(c, path) == path \in c.deny

\* variant: a path that matches allow is kept whatever deny says
RetainedAllowWins(c, path) == AllowMatch(c, path)

\* the filter closure of filtered_files
Retained(c, path) == AllowMatch(c, path) /\ ~DenyMatch(c, path)

\* diff_parser::parse on the segments: every hunk of every segment parses
ParsedOk(d) == \A s \in DOMAIN d : \A k \in DOMAIN d[s].hunks : parse_hunk(d[s].hunks[k]).ok

ParsedFile(seg) ==
  [path |-> seg.path, hunks |-> [k \in DOMAIN seg.hunks |-> parse_hunk(seg.hunks[k])]]

changed_files(d) == [s \in DOMAIN d |-> ParsedFile(d[s])]

filtered_files(c, d) ==
  SelectIdx(changed_files(d), [s \in DOMAIN d |-> Retained(c, d[s].path)], 1)

\* churn_counts after the loop over filtered_files (a later insert of the
\* same path replaces the earlier one)
ChurnCounts(fs) ==
  [p \in {fs[i].path : i \in DOMAIN fs} |->
     Churn(fs[CHOOSE i \in DOMAIN fs :
                /\ fs[i].path = p
                /\ \A j \in DOMAIN fs : fs[j].path = p => j <= i].hunks)]

\* variant: no retain, every finding of the file is kept
RetainAll(found, cl) == found

\* found.retain(|issue| changed_lines.contains(&issue.line_number))
Retain(found, cl) ==
  SelectIdx(found, [k \in DOMAIN found |-> found[k].line_number \in cl], 1)

\* format!("{}:{} - {}", issue.file_path, issue.line_number, issue.description)
Note(issue) == [file_path |-> issue.file_path, line_number |-> issue.line_number,
                description |-> issue.description]

\* variant: no partition, the findings of every scanner go to issues
RECURSIVE ScanAllToIssues(_, _, _, _, _, _, _, _)
ScanAllToIssues(scs, k, file, content, c, idx, iss, cq) ==
  IF k > Len(scs) THEN [issues |-> iss, code_quality |-> cq]
  ELSE ScanAllToIssues(scs, k + 1, file, content, c, idx,
                       iss \o Retain(Scan(scs[k], file.path, content, c, idx),
                                     ChangedLines(file.hunks)), cq)

\* the loop over self.scanners for one file, from scanner k
RECURSIVE ScanAll(_, _, _, _, _, _, _, _)
ScanAll(scs, k, file, content, c, idx, iss, cq) ==
  IF k > Len(scs) THEN [issues |-> iss, code_quality |-> cq]
  ELSE LET found == Retain(Scan(scs[k], file.path, content, c, idx),
                           ChangedLines(file.hunks))
       IN IF scs[k] = "convention-deviation"
          THEN ScanAll(scs, k + 1, file, content, c, idx, iss,
                       cq \o [j \in DOMAIN found |-> Note(found[j])])
          ELSE ScanAll(scs, k + 1, file, content, c, idx, iss \o found, cq)

\* the index file the convention scanner reads: config.index_path()
ScannerIndex(c, d) == IF index_path(c) = None THEN AbsentIndex ELSE d.index

IssueCount(iss, path) == Cardinality({k \in DOMAIN iss : iss[k].file_path = path})

\* sev_w * findings + churn_w * churn
Risk(c, findings, churn) == c.sev_w * findings + c.churn_w * churn

\* file_risks, for the order in which the HashMap yields its entries
FileRisks(c, order, churn, iss) ==
  [i \in DOMAIN order |->
     [path |-> order[i], risk |-> Risk(c, IssueCount(iss, order[i]), churn[order[i]])]]

\* insertion of x behind every element that does not compare greater
RECURSIVE InsertDesc(_, _)
InsertDesc(sorted, x) ==
  IF sorted = <<>> THEN <<x>>
  ELSE IF sorted[1].risk >= x.risk
       THEN <<sorted[1]>> \o InsertDesc(Tail(sorted), x)
       ELSE <<x>> \o sorted

RECURSIVE InsertAsc(_, _)
InsertAsc(sorted, x) ==
  IF sorted = <<>> THEN <<x>>
  ELSE IF sorted[1].risk <= x.risk
       THEN <<sorted[1]>> \o InsertAsc(Tail(sorted), x)
       ELSE <<x>> \o sorted

\* file_risks.sort_by(|a, b| b.1.cmp(&a.1)): stable, descending by risk
RECURSIVE SortAscFrom(_, _, _)
SortAscFrom(s, k, acc) ==
  IF k > Len(s) THEN acc ELSE SortAscFrom(s, k + 1, InsertAsc(acc, s[k]))

\* variant: a.1.cmp(&b.1), ascending risk
SortByRiskAsc(s) == SortAscFrom(s, 1, <<>>)

RECURSIVE SortFrom(_, _, _)
SortFrom(s, k, acc) ==
  IF k > Len(s) THEN acc ELSE SortFrom(s, k + 1, InsertDesc(acc, s[k]))

SortByRisk(s) == SortFrom(s, 1, <<>>)

Take(s, n) == SubSeq(s, 1, Min(n, Len(s)))

\* .filter(|(_, risk)| *risk > 0).take(5)
TopHotspots(sorted) ==
  Take(SelectIdx(sorted, [i \in DOMAIN sorted |-> sorted[i].risk > 0], 1), HotspotLimit)

\* variant: the documents of the index file, whatever the configuration
\* names and whether or not the file loads
StoreDocsOfFile(c, d) == IF d.index.state = "absent" THEN 0 ELSE 1

\* the documents of the store the retriever gets (lines 189-200): the engine
\* reads the legacy index_path field
StoreDocs(c, d) ==
  IF c.legacy_index_path # None /\ IndexLoadable(d.index) THEN d.index.docs ELSE 0

\* format!("{}:{} {}", issue.file_path, issue.line_number, issue.description)
Query(issue) == Note(issue)

\* variants of the check before the provider call: `>` for `>=`, and a
\* check skipped for the Null provider
BudgetPreStrict(c, u) == c.max_per_run # NoBudget /\ u > c.max_per_run
BudgetPreRemoteOnly(c, u) ==
  c.provider # "null" /\ c.max_per_run # NoBudget /\ u >= c.max_per_run

\* lib.rs lines 249-256
BudgetPreExceeded(c, u) == c.max_per_run # NoBudget /\ u >= c.max_per_run

\* variant: no check after the provider call
BudgetPostOff(c, u) == FALSE

\* the budget check after the provider call
BudgetPostExceeded(c, u) == c.max_per_run # NoBudget /\ u > c.max_per_run

TokenBudgetExceeded(u, m) ==
  [ok |-> FALSE, err |-> "TokenBudgetExceeded", used |-> u, max |-> m]

EngineErr(kind) == [ok |-> FALSE, err |-> kind]

\* u32::saturating_add; a run adds one provider's usage to 0, so within a
\* run the sum stays below u32::MAX
saturating_add(a, b) == a + b

\* token_usage an LlmProvider::generate response may carry
NullTokenUsage == 0
TokenUsages(c) == IF c.provider = "null" THEN {NullTokenUsage} ELSE 0..MaxTokenUsage

(***************************************************************************)
(* check.rs: exit code                                                     *)
(***************************************************************************)
\* args.fail_on.unwrap_or_else(|| engine.config().fail_on.clone())
Threshold(a, c) == IF a.fail_on # None THEN a.fail_on ELSE c.fail_on

MaxSeverity(iss) ==
  CHOOSE s \in {iss[k].severity : k \in DOMAIN iss} :
    \A k \in DOMAIN iss : as_u8(s) >= as_u8(iss[k].severity)

\* report.issues.iter().map(severity).max().map_or(false, |max| max >= threshold)
IssuesFound(iss, threshold) ==
  IF iss = <<>> THEN FALSE ELSE SevGe(MaxSeverity(iss), threshold)

\* check::run: the match on execute's result
ExitCodeOf(r) ==
  IF r.ok THEN (IF r.issues_found THEN 1 ELSE 0)
  ELSE IF r.engine /\ r.err = "Config" THEN 2 ELSE 3

(***************************************************************************)
(* Specification Spec: the check command running ReviewEngine::run         *)
(***************************************************************************)
H(n, raw) == [new_start |-> n, raw |-> raw]
Seg(path, hunks) == [path |-> path, hunks |-> hunks]
L(h) == [hit |-> h, dir |-> None, comment |-> FALSE]
OnDisk(content) == [exists |-> TRUE, content |-> content]
Missing == [exists |-> FALSE, content |-> <<>>]

RichPaths == {"a.go", "b.go"}
WidePaths == {"w1.go", "w2.go", "w3.go", "w4.go", "w5.go", "w6.go"}
WideOrder == <<"w1.go", "w2.go", "w3.go", "w4.go", "w5.go", "w6.go">>

\* hunks of one file segment
HunkSamples ==
  {<<>>,
   <<H(1, <<"+", "+">>)>>,
   <<H(1, <<" ", "-", "+">>)>>,
   <<H(1, <<"+">>), H(3, <<"-", "+", " ">>)>>,
   <<H(2, <<"-", "\\", "+", "\\">>)>>,
   <<H(1, <<"+", "x">>)>>}

\* working-tree content of one file
ContentSamples ==
  {OnDisk(<<L({"secret"}), L({"sql"}), L({"http"})>>),
   OnDisk(<<L({"conv"}), L({}), L({"secret", "tmpl", "write"})>>),
   OnDisk(<<L({"http"}), L({"sql"}), L({"fn"})>>),
   Missing}

ContentSamplesB ==
  {OnDisk(<<L({"conv"}), L({}), L({"secret", "tmpl", "write"})>>), Missing}

\* the diff segments over distinct paths
RichDiffs ==
  {<<>>}
  \cup {<<Seg(p, h)>> : p \in RichPaths, h \in HunkSamples}
  \cup {<<Seg(pq[1], h), Seg(pq[2], g)>> :
          pq \in {x \in RichPaths \X RichPaths : x[1] # x[2]},
          h \in HunkSamples, g \in HunkSamples}

RECURSIVE Plus(_)
Plus(n) == IF n = 0 THEN <<>> ELSE <<"+">> \o Plus(n - 1)

\* the i-th wide file has i added lines, the first three up to MaxChurn - 1 more
WideDiffs ==
  {[i \in DOMAIN WideOrder |->
      Seg(WideOrder[i], <<H(1, Plus(IF i \in DOMAIN ch THEN i + ch[i] ELSE i))>>)] :
     ch \in [1..3 -> 0..(MaxChurn - 1)]}

WideTree ==
  [p \in WidePaths |->
     IF p = "w1.go" THEN OnDisk(<<L({"secret"}), L({})>>) ELSE OnDisk(<<L({}), L({})>>)]

RichCfgs ==
  {DefaultCfg,
   [DefaultCfg EXCEPT !.max_per_run = 0],
   [DefaultCfg EXCEPT !.max_per_run = 1, !.fail_on = "critical"],
   [DefaultCfg EXCEPT !.provider = "openai"],
   [DefaultCfg EXCEPT !.provider = "openai", !.max_per_run = 0],
   [DefaultCfg EXCEPT !.provider = "openai", !.max_per_run = 1, !.deny = {"b.go"}],
   [DefaultCfg EXCEPT !.sev_w = 0, !.churn_w = 0, !.index = None,
                      !.legacy_index_path = "idx"],
   [DefaultCfg EXCEPT !.globs_valid = FALSE],
   [DefaultCfg EXCEPT !.provider = "openai", !.llm_ready = FALSE],
   [DefaultCfg EXCEPT !.rules["secrets"].enabled = FALSE,
                      !.rules["http-timeouts-go"].severity = "low", !.allow = {"a.go"}]}

WideCfgs ==
  {DefaultCfg,
   [DefaultCfg EXCEPT !.sev_w = 0],
   [DefaultCfg EXCEPT !.churn_w = 0]}

\* values of the --fail-on option
FailOnArgs == {None, "medium", "critical"}

RunStart ==
  /\ pc = "main" /\ runNo = 1 /\ files = <<>> /\ fileIdx = 1 /\ churn_counts = <<>>
  /\ issues = <<>> /\ code_quality = <<>> /\ hotspots = <<>> /\ contexts = <<>>
  /\ used = 0 /\ generateCalls = 0 /\ result = NoResult /\ first = NoResult
  /\ reportFile = NoResult /\ execResult = NoResult /\ args = [fail_on |-> None]
  /\ exitCode = -1

InitRich ==
  /\ cfg \in RichCfgs
  /\ diff \in RichDiffs
  /\ disk \in {[tree |-> t, index |-> ix] :
                 t \in {f \in [RichPaths -> ContentSamples] :
                          f["b.go"] \in ContentSamplesB},
                 ix \in {AbsentIndex, CorruptIndex, EmptyIndex,
                         Index("ok", TRUE, TRUE, 1)}}

InitWide ==
  /\ cfg \in WideCfgs
  /\ diff \in WideDiffs
  /\ disk = [tree |-> WideTree, index |-> AbsentIndex]

Init ==
  /\ InitRich \/ InitWide
  /\ RunStart
  /\ DiffIdle /\ ScanIdle /\ RedactIdle /\ ParseIdle /\ IndexIdle /\ LateIdle

others == <<diffVars, scanVars, redactVars, parseVars, indexVars, lateVars>>
inputs == <<cfg, diff, disk>>
runLocals == <<files, fileIdx, churn_counts, issues, code_quality, hotspots,
               contexts, used>>
cliVars == <<reportFile, execResult, args, exitCode>>

\* main.rs lines 117-132: the configuration file is absent or loads
LoadConfig ==
  /\ pc = "main"
  /\ pc' = "new"
  /\ UNCHANGED <<inputs, runNo, runLocals, generateCalls, result, first, cliVars, others>>

\* main.rs line 123: Config::load_from_path fails (unreadable file: Io, TOML
\* that does not deserialize: Config); `?` returns the error from main, and
\* a main that returns Err ends the process with exit code 1
LoadConfigFail ==
  /\ pc = "main"
  /\ \E e \in {"Config", "Io"} :
       execResult' = [ok |-> FALSE, engine |-> TRUE, err |-> e]
  /\ exitCode' = 1
  /\ pc' = "exited"
  /\ UNCHANGED <<inputs, runNo, runLocals, generateCalls, result, first,
                 reportFile, args, others>>

\* main.rs lines 175-185: ReviewEngine::new
NewEngine ==
  /\ pc = "new" /\ create_llm_provider(cfg).ok
  /\ pc' = "cli"
  /\ UNCHANGED <<inputs, runNo, runLocals, generateCalls, result, first, cliVars, others>>

NewEngineFail ==
  /\ pc = "new" /\ ~create_llm_provider(cfg).ok
  /\ execResult' = [ok |-> FALSE, engine |-> TRUE, err |-> create_llm_provider(cfg).err]
  /\ exitCode' = IF create_llm_provider(cfg).err = "Config" THEN 2 ELSE 3
  /\ pc' = "exited"
  /\ UNCHANGED <<inputs, runNo, runLocals, generateCalls, result, first,
                 reportFile, args, others>>

\* check::execute, base reference and `git diff` (lines 113-170)
ResolveDiff ==
  /\ pc = "cli"
  /\ pc' = "parse"
  /\ UNCHANGED <<inputs, runNo, runLocals, generateCalls, result, first, cliVars, others>>

\* the upstream reference cannot be detected: EngineError::Config
ResolveUpstreamFail ==
  /\ pc = "cli"
  /\ execResult' = [ok |-> FALSE, engine |-> TRUE, err |-> "Config"]
  /\ pc' = "exit"
  /\ UNCHANGED <<inputs, runNo, runLocals, generateCalls, result, first,
                 reportFile, args, exitCode, others>>

\* `git diff` fails: an anyhow error that is no EngineError
GitDiffFail ==
  /\ pc = "cli"
  /\ execResult' = [ok |-> FALSE, engine |-> FALSE, err |-> "git diff command failed"]
  /\ pc' = "exit"
  /\ UNCHANGED <<inputs, runNo, runLocals, generateCalls, result, first,
                 reportFile, args, exitCode, others>>

\* run, lines 92-125: parse, build the glob sets, filter, count churn
ParseAndFilter ==
  /\ pc = "parse" /\ ParsedOk(diff) /\ cfg.globs_valid
  /\ files' = filtered_files(cfg, diff)
  /\ churn_counts' = ChurnCounts(filtered_files(cfg, diff))
  /\ fileIdx' = 1 /\ used' = 0
  /\ pc' = "scan"
  /\ UNCHANGED <<inputs, runNo, issues, code_quality, hotspots, contexts,
                 generateCalls, result, first, cliVars, others>>

ParseFail ==
  /\ pc = "parse" /\ ~ParsedOk(diff)
  /\ result' = EngineErr("DiffParser")
  /\ pc' = "run_done"
  /\ UNCHANGED <<inputs, runNo, runLocals, generateCalls, first, cliVars, others>>

GlobFail ==
  /\ pc = "parse" /\ ParsedOk(diff) /\ ~cfg.globs_valid
  /\ result' = EngineErr("Config")
  /\ pc' = "run_done"
  /\ UNCHANGED <<inputs, runNo, runLocals, generateCalls, first, cliVars, others>>

\* run, lines 130-163: one iteration of the loop over filtered_files
ScanFile ==
  /\ pc = "scan" /\ fileIdx <= Len(files)
  /\ disk.tree[files[fileIdx].path].exists
  /\ LET r == ScanAll(load_enabled_scanners(cfg), 1, files[fileIdx],
                      disk.tree[files[fileIdx].path].content, cfg,
                      ScannerIndex(cfg, disk), issues, code_quality)
     IN issues' = r.issues /\ code_quality' = r.code_quality
  /\ fileIdx' = fileIdx + 1
  /\ UNCHANGED <<inputs, pc, runNo, files, churn_counts, hotspots, contexts, used,
                 generateCalls, result, first, cliVars, others>>

\* fs::read_to_string(&file.path)? fails
ReadFail ==
  /\ pc = "scan" /\ fileIdx <= Len(files)
  /\ ~disk.tree[files[fileIdx].path].exists
  /\ result' = EngineErr("Io")
  /\ pc' = "run_done"
  /\ UNCHANGED <<inputs, runNo, runLocals, generateCalls, first, cliVars, others>>

\* run, lines 165-186; the HashMap yields its entries in an arbitrary order
Hotspots ==
  /\ pc = "scan" /\ fileIdx > Len(files)
  /\ \E order \in Perms(DOMAIN churn_counts) :
       hotspots' = TopHotspots(SortByRisk(FileRisks(cfg, order, churn_counts, issues)))
  /\ pc' = "rag"
  /\ UNCHANGED <<inputs, runNo, files, fileIdx, churn_counts, issues, code_quality,
                 contexts, used, generateCalls, result, first, cliVars, others>>

\* run, lines 188-213: a retrieval fails when the store has no document
Retrieve ==
  /\ pc = "rag"
  /\ contexts' = IF StoreDocs(cfg, disk) > 0
                 THEN [k \in DOMAIN issues |-> Query(issues[k])] ELSE <<>>
  /\ pc' = "budget"
  /\ UNCHANGED <<inputs, runNo, files, fileIdx, churn_counts, issues, code_quality,
                 hotspots, used, generateCalls, result, first, cliVars, others>>

\* run, lines 249-256
BudgetPreFail ==
  /\ pc = "budget" /\ BudgetPreExceeded(cfg, used)
  /\ result' = TokenBudgetExceeded(used, cfg.max_per_run)
  /\ pc' = "run_done"
  /\ UNCHANGED <<inputs, runNo, runLocals, generateCalls, first, cliVars, others>>

\* run, lines 257-258: the provider answers
Generate ==
  /\ pc = "budget" /\ ~BudgetPreExceeded(cfg, used)
  /\ \E tok \in TokenUsages(cfg) : used' = saturating_add(used, tok)
  /\ generateCalls' = generateCalls + 1
  /\ pc' = "post"
  /\ UNCHANGED <<inputs, runNo, files, fileIdx, churn_counts, issues, code_quality,
                 hotspots, contexts, result, first, cliVars, others>>

\* run, line 257: a remote provider fails (transport or parse error)
GenerateFail ==
  /\ pc = "budget" /\ ~BudgetPreExceeded(cfg, used) /\ cfg.provider # "null"
  /\ generateCalls' = generateCalls + 1
  /\ result' = EngineErr("LlmProvider")
  /\ pc' = "run_done"
  /\ UNCHANGED <<inputs, runNo, runLocals, first, cliVars, others>>

\* run, lines 259-266
BudgetPostFail ==
  /\ pc = "post" /\ BudgetPostExceeded(cfg, used)
  /\ result' = TokenBudgetExceeded(used, cfg.max_per_run)
  /\ pc' = "run_done"
  /\ UNCHANGED <<inputs, runNo, runLocals, generateCalls, first, cliVars, others>>

\* LlmResponse.content.  NullProvider::generate returns one fixed sentence
\* whatever the prompt; `reviewed` and `titles` are the file counts and the
\* issue titles the text states.
LlmContent(c) ==
  IF c.provider = "null"
  THEN [text |-> "This is a dummy response from the null provider.",
        reviewed |-> {}, titles |-> {}]
  ELSE [text |-> "remote completion", reviewed |-> {}, titles |-> {}]

\* run, lines 268-278
BuildReport ==
  /\ pc = "post" /\ ~BudgetPostExceeded(cfg, used)
  /\ result' = [ok |-> TRUE, summary |-> LlmContent(cfg), issues |-> issues,
                code_quality |-> code_quality, hotspots |-> hotspots]
  /\ pc' = "run_done"
  /\ UNCHANGED <<inputs, runNo, runLocals, generateCalls, first, cliVars, others>>

\* a caller invokes run(&self, diff) again with the same diff
Rerun ==
  /\ pc = "run_done" /\ runNo = 1
  /\ first' = result /\ runNo' = 2 /\ result' = NoResult
  /\ files' = <<>> /\ fileIdx' = 1 /\ churn_counts' = <<>> /\ issues' = <<>>
  /\ code_quality' = <<>> /\ hotspots' = <<>> /\ contexts' = <<>> /\ used' = 0
  /\ pc' = "parse"
  /\ UNCHANGED <<inputs, generateCalls, cliVars, others>>

\* check::execute line 197: run's error is returned
FinishErr ==
  /\ pc = "run_done" /\ runNo = 1 /\ ~result.ok
  /\ execResult' = [ok |-> FALSE, engine |-> TRUE, err |-> result.err]
  /\ pc' = "exit"
  /\ UNCHANGED <<inputs, runNo, runLocals, generateCalls, result, first,
                 reportFile, args, exitCode, others>>

\* variant: the output file is written before run's result is looked at
WriteReportEarly ==
  /\ pc = "run_done" /\ runNo = 1
  /\ \E f \in FailOnArgs : args' = [fail_on |-> f]
  /\ reportFile' = result
  /\ execResult' = IF result.ok
                    THEN [ok |-> TRUE,
                          issues_found |-> IssuesFound(result.issues, Threshold(args', cfg))]
                    ELSE [ok |-> FALSE, engine |-> TRUE, err |-> result.err]
  /\ pc' = "exit"
  /\ UNCHANGED <<inputs, runNo, runLocals, generateCalls, result, first, exitCode, others>>

\* check::execute lines 219-242: serialize, write, compare with the threshold
WriteReport ==
  /\ pc = "run_done" /\ runNo = 1 /\ result.ok
  /\ \E f \in FailOnArgs : args' = [fail_on |-> f]
  /\ reportFile' = result
  /\ execResult' = [ok |-> TRUE,
                    issues_found |-> IssuesFound(result.issues, Threshold(args', cfg))]
  /\ pc' = "exit"
  /\ UNCHANGED <<inputs, runNo, runLocals, generateCalls, result, first, exitCode, others>>

\* fs::write fails: a std::io::Error that is no EngineError
WriteFail ==
  /\ pc = "run_done" /\ runNo = 1 /\ result.ok
  /\ execResult' = [ok |-> FALSE, engine |-> FALSE, err |-> "io"]
  /\ pc' = "exit"
  /\ UNCHANGED <<inputs, runNo, runLocals, generateCalls, result, first,
                 reportFile, args, exitCode, others>>

\* check::run lines 63-90
Exit ==
  /\ pc = "exit"
  /\ exitCode' = ExitCodeOf(execResult)
  /\ pc' = "exited"
  /\ UNCHANGED <<inputs, runNo, runLocals, generateCalls, result, first,
                 reportFile, execResult, args, others>>

Next ==
  \/ LoadConfig \/ LoadConfigFail \/ NewEngine \/ NewEngineFail
  \/ ResolveDiff \/ ResolveUpstreamFail \/ GitDiffFail
  \/ ParseAndFilter \/ ParseFail \/ GlobFail
  \/ ScanFile \/ ReadFail \/ Hotspots \/ Retrieve
  \/ BudgetPreFail \/ Generate \/ GenerateFail \/ BudgetPostFail \/ BuildReport
  \/ Rerun \/ FinishErr \/ WriteReport \/ WriteFail \/ Exit

Spec == Init /\ [][Next]_vars

(***************************************************************************)
(* Specification SpecParse: diff_parser::parse on a diff text              *)
(***************************************************************************)
MaxSegs == 2

\* a count elided in a hunk header ("@@ -3 +3 @@")
Elided == -1

\* a line of the diff text, by what the parser looks at
Tok(k, path, old, new, start) ==
  [k |-> k, path |-> path, old |-> old, new |-> new, start |-> start]
Plain(k) == Tok(k, None, 0, 0, 0)

\* body lines of hunks as `git diff` prints them
BodySamples ==
  {<<"+">>, <<" ", "-", "+">>, <<"-", "\\", "+">>, <<"+", "", "+">>}

SegPaths == <<"a.go", "b.go", "c.go">>

\* a file segment: "text" has the ---/+++ marker pair and hunks, "rename"
\* and "binary" have extended header lines only
SegShapes ==
  {[kind |-> "text", bodies |-> bs] : bs \in SeqsUpTo(BodySamples, 2)}
  \cup {[kind |-> "rename", bodies |-> <<>>], [kind |-> "binary", bodies |-> <<>>]}

\* the counts git writes in the header: lines of the old / new file in the body
OldCount(body) == Cardinality({i \in DOMAIN body : body[i] \in {"-", " ", ""}})
NewCount(body) == Cardinality({i \in DOMAIN body : body[i] \in {"+", " ", ""}})
HeaderCount(n) == IF n = 1 THEN Elided ELSE n

RenderHunk(body, k) ==
  <<Tok("@@", None, HeaderCount(OldCount(body)), HeaderCount(NewCount(body)), k)>>
  \o [i \in DOMAIN body |-> Plain(body[i])]

RECURSIVE RenderHunks(_, _)
RenderHunks(bodies, k) ==
  IF k > Len(bodies) THEN <<>>
  ELSE RenderHunk(bodies[k], k) \o RenderHunks(bodies, k + 1)

RenderSeg(seg) ==
  <<Tok("diff", seg.path, 0, 0, 0)>>
  \o (IF seg.kind = "text" THEN <<Plain("index"), Plain("---"), Plain("+++")>>
      ELSE <<Plain("meta"), Plain("meta")>>)
  \o RenderHunks(seg.bodies, 1)

\* the lines of the diff text
RECURSIVE RenderDiff(_, _)
RenderDiff(segs, s) ==
  IF s > Len(segs) THEN <<>> ELSE RenderSeg(segs[s]) \o RenderDiff(segs, s + 1)

\* first character of a line, as parse_hunk's match sees it
FirstChar(tok) ==
  CASE tok.k \in {"+", "-", " ", "\\", ""} -> tok.k
    [] tok.k = "---" -> "-"
    [] tok.k = "+++" -> "+"
    [] OTHER -> "x"

\* parse_range: the count after the comma, 1 when there is none
parse_range(cnt) == IF cnt = Elided THEN 1 ELSE cnt

\* index of the first line from i that ends a hunk body ("@@" or "diff --git")
RECURSIVE BodyEnd(_, _)
BodyEnd(lines, i) ==
  IF i > Len(lines) \/ lines[i].k \in {"@@", "diff"} THEN i ELSE BodyEnd(lines, i + 1)

\* parse_hunk on the header at index h: the Hunk with its header fields
ParseHunkAt(lines, h) ==
  LET e == BodyEnd(lines, h + 1)
      r == parse_hunk([new_start |-> lines[h].start,
                       raw |-> [i \in 1..(e - h - 1) |-> FirstChar(lines[h + i])]])
  IN IF r.ok
     THEN [ok |-> TRUE, next |-> e,
           hunk |-> [old_lines |-> parse_range(lines[h].old),
                     new_lines |-> parse_range(lines[h].new),
                     new_start |-> r.new_start, lines |-> r.lines]]
     ELSE [ok |-> FALSE, next |-> e, hunk |-> None]

\* parse, lines 75-86: the hunks of one file, from line i
RECURSIVE HunksFrom(_, _, _)
HunksFrom(lines, i, hunks) ==
  IF i > Len(lines) \/ lines[i].k = "diff" THEN [ok |-> TRUE, next |-> i, hunks |-> hunks]
  ELSE IF lines[i].k = "@@"
       THEN LET r == ParseHunkAt(lines, i)
            IN IF r.ok THEN HunksFrom(lines, r.next, Append(hunks, r.hunk))
               ELSE [ok |-> FALSE, next |-> i, hunks |-> hunks]
       ELSE HunksFrom(lines, i + 1, hunks)

\* parse, lines 58-63: index of the first "--- " line from i, Len + 1 if none
RECURSIVE MinusMarker(_, _)
MinusMarker(lines, i) ==
  IF i > Len(lines) \/ lines[i].k = "---" THEN i ELSE MinusMarker(lines, i + 1)

\* parse, lines 49-90: the outer loop from line i
RECURSIVE ParseFrom(_, _, _)
ParseFrom(lines, i, acc) ==
  IF i > Len(lines) THEN [ok |-> TRUE, files |-> acc]
  ELSE IF lines[i].k # "diff" THEN ParseFrom(lines, i + 1, acc)
  ELSE LET m == MinusMarker(lines, i + 1)
       IN IF m + 1 > Len(lines) \/ lines[m + 1].k # "+++"
          THEN [ok |-> FALSE, err |-> "DiffParser"]
          ELSE LET h == HunksFrom(lines, m + 2, <<>>)
               IN IF h.ok
                  THEN ParseFrom(lines, h.next,
                                 Append(acc, [path |-> lines[i].path, hunks |-> h.hunks]))
                  ELSE [ok |-> FALSE, err |-> "DiffParser"]

\* diff_parser::parse
parse(lines) ==
  IF lines = <<>> THEN [ok |-> TRUE, files |-> <<>>] ELSE ParseFrom(lines, 1, <<>>)

InitParse ==
  /\ segsIn \in UNION {{[s \in 1..n |-> [path |-> SegPaths[s], kind |-> sh[s].kind,
                                         bodies |-> sh[s].bodies]] :
                          sh \in [1..n -> SegShapes]} : n \in 0..MaxSegs}
  /\ parseOut = NoResult /\ ppc = "ready"
  /\ EngineIdle /\ DiffIdle /\ ScanIdle /\ RedactIdle /\ IndexIdle /\ LateIdle

ParseDiffOk ==
  /\ ppc = "ready" /\ parse(RenderDiff(segsIn, 1)).ok
  /\ parseOut' = parse(RenderDiff(segsIn, 1))
  /\ ppc' = "done"
  /\ UNCHANGED <<segsIn, engineVars, diffVars, scanVars, redactVars, indexVars, lateVars>>

ParseDiffErr ==
  /\ ppc = "ready" /\ ~parse(RenderDiff(segsIn, 1)).ok
  /\ parseOut' = parse(RenderDiff(segsIn, 1))
  /\ ppc' = "done"
  /\ UNCHANGED <<segsIn, engineVars, diffVars, scanVars, redactVars, indexVars, lateVars>>

NextParse == ParseDiffOk \/ ParseDiffErr

SpecParse == InitParse /\ [][NextParse]_vars

(***************************************************************************)
(* Specification SpecIndex: rag::index_repository and the index file       *)
(***************************************************************************)
MaxClock == 4

\* content that fs::read_to_string rejects (not valid UTF-8)
NonUtf8 == 0

\* contents of a file, two of them text
Contents == {NonUtf8, 1, 2}

\* config.rs DEFAULT_INDEX_PATH
IndexPath == ".reviewlens/index/index.json"
UserPaths == {"a.go", "b.md", ".git/config"}

\* paths under a directory named in VCS_DIRS
VcsPaths == {".git/config"}

\* the order in which WalkDir yields the files of the root
WalkOrder == <<".git/config", IndexPath, "a.go", "b.md">>

OnRepo(m, c) == [exists |-> TRUE, modified |-> m, content |-> c]
NoFile == [exists |-> FALSE, modified |-> 0, content |-> 0]

\* Document { filename, content, modified }; the embedding and the extracted
\* signatures are functions of the content
Document(p, c, m) == [filename |-> p, content |-> c, modified |-> m]

Blob(docs, m) == [state |-> "ok", docs |-> docs, modified |-> m]

\* the file File::create leaves before the data is written
Truncated(m) == [state |-> "partial", docs |-> <<>>, modified |-> m]

\* the globs as the sets of paths they match: "**/*", "**/*.go", and a deny
\* list that names the index directory
IndexCfgs ==
  {[allow |-> UserPaths \cup {IndexPath}, deny |-> {}, inside |-> TRUE],
   [allow |-> UserPaths \cup {IndexPath}, deny |-> {}, inside |-> FALSE],
   [allow |-> {"a.go"}, deny |-> {}, inside |-> TRUE],
   [allow |-> UserPaths \cup {IndexPath}, deny |-> {"b.md", IndexPath}, inside |-> TRUE]}

\* what the walk finds at path p: the index file is one of the files of the
\* root when the output path lies under it; its content is what was last
\* written to it
TreeAt(r, c, f, p) ==
  IF p = IndexPath
  THEN IF c.inside /\ f.state # "absent" THEN OnRepo(f.modified, f.modified) ELSE NoFile
  ELSE r[p]

\* index_repository lines 296-310: filter_entry and the allow/deny test
Candidate(c, p) == p \notin VcsPaths /\ p \in c.allow /\ p \notin c.deny

\* lines 280-290: the documents of the loaded store by filename
Existing(f, frc) == IF ~frc /\ f.state = "ok" THEN f.docs ELSE <<>>
HasDoc(docs, p) == \E k \in DOMAIN docs : docs[k].filename = p
DocOf(docs, p) == docs[CHOOSE k \in DOMAIN docs : docs[k].filename = p]

\* lines 319-327: the document is taken over from the loaded store
Reused(docs, p, file) == HasDoc(docs, p) /\ DocOf(docs, p).modified = file.modified

\* lines 294-345: the walk, from the k-th file on
RECURSIVE Walk(_, _, _, _, _, _)
Walk(r, c, f, frc, k, acc) ==
  IF k > Len(WalkOrder) THEN acc
  ELSE LET p == WalkOrder[k]
           file == TreeAt(r, c, f, p)
           old == Existing(f, frc)
       IN IF ~file.exists \/ ~Candidate(c, p) THEN Walk(r, c, f, frc, k + 1, acc)
          ELSE IF Reused(old, p, file)
               THEN Walk(r, c, f, frc, k + 1,
                         [acc EXCEPT !.docs = Append(@, DocOf(old, p))])
               ELSE IF file.content = NonUtf8
                    THEN [acc EXCEPT !.ok = FALSE]
                    ELSE Walk(r, c, f, frc, k + 1,
                              [docs |-> Append(acc.docs,
                                               Document(p, file.content, file.modified)),
                               read |-> acc.read \cup {p}, ok |-> TRUE])

WalkRepo(r, c, f, frc) == Walk(r, c, f, frc, 1, [docs |-> <<>>, read |-> {}, ok |-> TRUE])

InitIndex ==
  /\ idxCfg \in IndexCfgs
  /\ repo \in {[p \in UserPaths |-> IF p \in on THEN OnRepo(1, 1) ELSE NoFile] :
                 on \in {{"a.go"}, UserPaths}}
  /\ idxFile = NoBlob /\ idxPrev = NoBlob /\ idxNew = <<>> /\ embedded = {}
  /\ idxRuns = 0 /\ clock = 2 /\ force = FALSE /\ repoAtRun = repo /\ ipc = "idle"
  /\ EngineIdle /\ DiffIdle /\ ScanIdle /\ RedactIdle /\ ParseIdle /\ LateIdle

indexRest == <<engineVars, diffVars, scanVars, redactVars, parseVars, lateVars>>

\* a file of the root is created or rewritten; its modified time is the
\* time of the write
WriteUserFile ==
  /\ ipc = "idle" /\ clock <= MaxClock
  /\ \E p \in UserPaths, c \in Contents :
       repo' = [repo EXCEPT ![p] = OnRepo(clock, c)]
  /\ clock' = clock + 1
  /\ UNCHANGED <<idxCfg, idxFile, idxPrev, idxNew, embedded, idxRuns, force,
                 repoAtRun, ipc, indexRest>>

DeleteUserFile ==
  /\ ipc = "idle"
  /\ \E p \in UserPaths : repo[p].exists /\ repo' = [repo EXCEPT ![p] = NoFile]
  /\ UNCHANGED <<idxCfg, idxFile, idxPrev, idxNew, embedded, idxRuns, clock, force,
                 repoAtRun, ipc, indexRest>>

\* index_repository lines 280-285: the store is loaded, or starts empty
IndexLoad ==
  /\ ipc = "idle" /\ clock <= MaxClock
  /\ \E frc \in BOOLEAN :
       /\ frc \/ idxFile.state \in {"absent", "ok"}
       /\ force' = frc
  /\ idxPrev' = idxFile /\ idxNew' = <<>> /\ embedded' = {}
  /\ ipc' = "walk"
  /\ UNCHANGED <<repo, idxCfg, idxFile, idxRuns, clock, repoAtRun, indexRest>>

\* line 282: load_from_disk(output)? fails on a file that is no store
IndexLoadFail ==
  /\ ipc = "idle" /\ idxFile.state \notin {"absent", "ok"}
  /\ force' = FALSE /\ idxPrev' = idxFile /\ idxNew' = <<>> /\ embedded' = {}
  /\ ipc' = "failed"
  /\ UNCHANGED <<repo, idxCfg, idxFile, idxRuns, clock, repoAtRun, indexRest>>

\* lines 294-347
IndexWalk ==
  /\ ipc = "walk" /\ WalkRepo(repo, idxCfg, idxPrev, force).ok
  /\ idxNew' = WalkRepo(repo, idxCfg, idxPrev, force).docs
  /\ embedded' = WalkRepo(repo, idxCfg, idxPrev, force).read
  /\ ipc' = "save"
  /\ UNCHANGED <<repo, idxCfg, idxFile, idxPrev, idxRuns, clock, force, repoAtRun,
                 indexRest>>

\* line 329: fs::read_to_string(entry.path())? fails
IndexWalkFail ==
  /\ ipc = "walk" /\ ~WalkRepo(repo, idxCfg, idxPrev, force).ok
  /\ ipc' = "failed"
  /\ UNCHANGED <<repo, idxCfg, idxFile, idxPrev, idxNew, embedded, idxRuns, clock,
                 force, repoAtRun, indexRest>>

\* save_to_disk line 235, fs::write: the file is created or truncated ...
SaveTruncate ==
  /\ ipc = "save"
  /\ idxFile' = Truncated(clock)
  /\ ipc' = "writing"
  /\ UNCHANGED <<repo, idxCfg, idxPrev, idxNew, embedded, idxRuns, clock, force,
                 repoAtRun, indexRest>>

\* ... and then the data is written
SaveWrite ==
  /\ ipc = "writing"
  /\ idxFile' = Blob(idxNew, clock)
  /\ clock' = clock + 1
  /\ ipc' = "written"
  /\ UNCHANGED <<repo, idxCfg, idxPrev, idxNew, embedded, idxRuns, force, repoAtRun,
                 indexRest>>

\* lines 355-357: Ok(store)
IndexReturn ==
  /\ ipc = "written"
  /\ idxRuns' = idxRuns + 1 /\ repoAtRun' = repo
  /\ ipc' = "idle"
  /\ UNCHANGED <<repo, idxCfg, idxFile, idxPrev, idxNew, embedded, clock, force,
                 indexRest>>

\* the process is killed, or the failed run's error has been returned
IndexStop ==
  /\ ipc \in {"walk", "save", "writing", "failed"}
  /\ ipc' = "idle"
  /\ clock' = IF ipc = "writing" THEN clock + 1 ELSE clock
  /\ UNCHANGED <<repo, idxCfg, idxFile, idxPrev, idxNew, embedded, idxRuns, force,
                 repoAtRun, indexRest>>

NextIndex ==
  \/ WriteUserFile \/ DeleteUserFile \/ IndexLoad \/ IndexLoadFail
  \/ IndexWalk \/ IndexWalkFail \/ SaveTruncate \/ SaveWrite \/ IndexReturn
  \/ IndexStop

SpecIndex == InitIndex /\ [][NextIndex]_vars

(***************************************************************************)
(* Specification SpecConv: the conventions rule over the files of one run  *)
(***************************************************************************)
MaxConvFiles == 3

\* the registered ConventionDeviationScanner, and the ConventionsScanner of
\* scanner/conventions.rs with its cached baseline
ConvScanners == {"convention-deviation", "conventions"}

\* derive_patterns / the Baseline built from the documents of a loaded index
BaselineOf(idx) ==
  [some |-> TRUE, patterns |-> idx.patterns, require_result |-> idx.require_result]

\* ConventionsScanner::ensure_baseline: the guard after the call
ensure_baseline(guard, idx) ==
  IF ~guard.some /\ IndexLoadable(idx) THEN BaselineOf(idx) ELSE guard

\* the baseline a scan call judges its file against
BaselineUsed(who, guard, idx) ==
  IF who = "conventions" THEN ensure_baseline(guard, idx)
  ELSE IF IndexLoadable(idx) THEN BaselineOf(idx) ELSE NoBaseline

\* whether the scan call derives a baseline from the index file
Derives(who, guard, idx) ==
  IndexLoadable(idx) /\ (who = "conventions" => ~guard.some)

InitConv ==
  /\ convWho \in ConvScanners /\ convIndex \in IndexSamples
  /\ convGuard = NoBaseline /\ convUsed = <<>> /\ convDerived = 0 /\ cpc = "run"
  /\ EngineIdle /\ DiffIdle /\ ScanIdle /\ RedactIdle /\ ParseIdle /\ IndexIdle
  /\ RegIdle /\ IgnIdle /\ PromptIdle

convRest == <<engineVars, diffVars, scanVars, redactVars, parseVars, indexVars, regVars,
              ignVars, promptVars>>

\* lib.rs lines 130-163: the scan loop reaches the rule for the next file
ConvScanFile ==
  /\ cpc = "run" /\ Len(convUsed) < MaxConvFiles
  /\ convUsed' = Append(convUsed, BaselineUsed(convWho, convGuard, convIndex))
  /\ convGuard' = IF convWho = "conventions" THEN ensure_baseline(convGuard, convIndex)
                  ELSE convGuard
  /\ convDerived' = IF Derives(convWho, convGuard, convIndex)
                    THEN convDerived + 1 ELSE convDerived
  /\ UNCHANGED <<convWho, convIndex, cpc, convRest>>

\* the index file is created, rewritten or removed while the run goes on
ConvIndexChange ==
  /\ cpc = "run" /\ Len(convUsed) < MaxConvFiles
  /\ \E ix \in IndexSamples : ix # convIndex /\ convIndex' = ix
  /\ UNCHANGED <<convWho, convGuard, convUsed, convDerived, cpc, convRest>>

\* the loop is through
ConvRunEnd ==
  /\ cpc = "run" /\ Len(convUsed) = MaxConvFiles
  /\ cpc' = "done"
  /\ UNCHANGED <<convWho, convIndex, convGuard, convUsed, convDerived, convRest>>

NextConv == ConvScanFile \/ ConvIndexChange \/ ConvRunEnd

SpecConv == InitConv /\ [][NextConv]_vars

(***************************************************************************)
(* Specification SpecReg: concurrent ReviewEngine::new and the registry    *)
(***************************************************************************)
MaxThreads == 2
Threads == 1..MaxThreads

\* the rules a thread's config enables
EnabledSets == {Scanners, {"secrets", "server-xss-go"}, {}}

\* variant: a flag tested before the registration, not a Once
OnceEntersUnlessDone(st) == st # "done"

\* Once::call_once runs the closure for the one caller that finds INIT new
OnceEnters(st) == st = "new"

\* Once::call_once returns: the closure has completed
OncePasses(st) == st = "done"

\* load_enabled_scanners lines 222-246: for each enabled rule, in order, the
\* factory the registry holds under its name
Materialize(enabled, reg) ==
  SelectIdx(ScannerOrder,
            [i \in DOMAIN ScannerOrder |->
               ScannerOrder[i] \in enabled /\ ScannerOrder[i] \in reg], 1)

InitReg ==
  /\ onceState = "new" /\ registry = {} /\ regLock = 0 /\ regStep = 1 /\ regRuns = 0
  /\ tpc = [t \in Threads |-> "new"]
  /\ tcfg \in [Threads -> EnabledSets]
  /\ tscanners = [t \in Threads |-> <<>>]
  /\ EngineIdle /\ DiffIdle /\ ScanIdle /\ RedactIdle /\ ParseIdle /\ IndexIdle
  /\ ConvIdle /\ IgnIdle /\ PromptIdle

regRest == <<engineVars, diffVars, scanVars, redactVars, parseVars, indexVars, convVars,
             ignVars, promptVars>>

\* register_builtin_scanners: INIT.call_once, entered by the first caller
OnceEnter(t) ==
  /\ tpc[t] = "new" /\ OnceEnters(onceState)
  /\ onceState' = "running" /\ regRuns' = regRuns + 1 /\ regStep' = 1
  /\ tpc' = [tpc EXCEPT ![t] = "register"]
  /\ UNCHANGED <<registry, regLock, tcfg, tscanners, regRest>>

\* register_scanner: REGISTRY.lock()
RegisterLock(t) ==
  /\ tpc[t] = "register" /\ regStep <= Len(ScannerOrder) /\ regLock = 0
  /\ regLock' = t
  /\ tpc' = [tpc EXCEPT ![t] = "insert"]
  /\ UNCHANGED <<onceState, registry, regStep, regRuns, tcfg, tscanners, regRest>>

\* register_scanner: registry.insert, and the guard is dropped
RegisterInsert(t) ==
  /\ tpc[t] = "insert"
  /\ registry' = registry \cup {ScannerOrder[regStep]}
  /\ regStep' = regStep + 1 /\ regLock' = 0
  /\ tpc' = [tpc EXCEPT ![t] = "register"]
  /\ UNCHANGED <<onceState, regRuns, tcfg, tscanners, regRest>>

\* the closure returns and call_once marks INIT complete
OnceComplete(t) ==
  /\ tpc[t] = "register" /\ regStep > Len(ScannerOrder)
  /\ onceState' = "done"
  /\ tpc' = [tpc EXCEPT ![t] = "lock"]
  /\ UNCHANGED <<registry, regLock, regStep, regRuns, tcfg, tscanners, regRest>>

\* call_once returns for a caller that finds INIT complete; a caller that
\* finds it running waits
OncePass(t) ==
  /\ tpc[t] = "new" /\ OncePasses(onceState)
  /\ tpc' = [tpc EXCEPT ![t] = "lock"]
  /\ UNCHANGED <<onceState, registry, regLock, regStep, regRuns, tcfg, tscanners,
                 regRest>>

\* load_enabled_scanners line 219: REGISTRY.lock()
LookupLock(t) ==
  /\ tpc[t] = "lock" /\ regLock = 0
  /\ regLock' = t
  /\ tpc' = [tpc EXCEPT ![t] = "lookup"]
  /\ UNCHANGED <<onceState, registry, regStep, regRuns, tcfg, tscanners, regRest>>

\* lines 220-249: the lookups, and the guard is dropped on return
LoadScanners(t) ==
  /\ tpc[t] = "lookup"
  /\ tscanners' = [tscanners EXCEPT ![t] = Materialize(tcfg[t], registry)]
  /\ regLock' = 0
  /\ tpc' = [tpc EXCEPT ![t] = "done"]
  /\ UNCHANGED <<onceState, registry, regStep, regRuns, tcfg, regRest>>

NextReg ==
  \E t \in Threads :
    \/ OnceEnter(t) \/ RegisterLock(t) \/ RegisterInsert(t) \/ OnceComplete(t)
    \/ OncePass(t) \/ LookupLock(t) \/ LoadScanners(t)

SpecReg == InitReg /\ [][NextReg]_vars

(***************************************************************************)
(* Specification SpecIgnore: parse_ignore_directives on a file text        *)
(***************************************************************************)
MaxIgnoreLines == 3

\* a line by what the parser looks at: the rule of the directive it carries
\* (None if it carries none) and whether it starts with "//"
IgnoreLines ==
  {[hit |-> {}, dir |-> d, comment |-> cm] :
     d \in {None, "secrets", "conventions"}, cm \in BOOLEAN}

InitIgnore ==
  /\ ignIn \in UNION {[1..k -> IgnoreLines] : k \in 1..MaxIgnoreLines}
  /\ ignMap = <<>> /\ gpc = "ready"
  /\ EngineIdle /\ DiffIdle /\ ScanIdle /\ RedactIdle /\ ParseIdle /\ IndexIdle
  /\ ConvIdle /\ RegIdle /\ PromptIdle

ParseIgnores ==
  /\ gpc = "ready"
  /\ ignMap' = parse_ignore_directives(ignIn)
  /\ gpc' = "done"
  /\ UNCHANGED <<ignIn, engineVars, diffVars, scanVars, redactVars, parseVars,
                 indexVars, convVars, regVars, promptVars>>

NextIgnore == ParseIgnores

SpecIgnore == InitIgnore /\ [][NextIgnore]_vars

(***************************************************************************)
(* Specification SpecPrompt: ReviewEngine::run from the building of the    *)
(* prompt to the call of generate (lib.rs:215-257)                         *)
(***************************************************************************)
MaxPromptText == 2
MaxPromptIssues == 1

\* a piece of fixed text of a format string, held in one cell
Lit(str) == <<Cell(str)>>

\* the titles the scanners give their issues
TitleSamples == {Text(<<"R">>)}
PathSamples == {Text(<<"a">>), Text(<<"b">>)}
PromptTexts == {Text(t) : t \in SeqsUpTo(TextAlphabet, MaxPromptText)}

PromptIssues ==
  {[file_path |-> fp, line_number |-> 1, title |-> ti, description |-> de] :
     fp \in PathSamples, ti \in TitleSamples, de \in PromptTexts}

\* Vec<String>::join(sep)
RECURSIVE Join(_, _)
Join(strs, sep) ==
  IF strs = <<>> THEN <<>>
  ELSE IF Len(strs) = 1 THEN strs[1]
       ELSE strs[1] \o sep \o Join(Tail(strs), sep)

\* format!("{:?}", issues): every field of every issue, as it is
DebugIssues(iss) ==
  Join([k \in DOMAIN iss |->
          iss[k].file_path \o Lit(ToString(iss[k].line_number)) \o iss[k].title
          \o iss[k].description], Lit(", "))

\* the first prompt, lib.rs:216-225
DraftOf(iss, ctxs) ==
  (IF ctxs # <<>> THEN Lit("Context:\n") \o Join(ctxs, Lit("\n\n")) \o Lit("\n\n") ELSE <<>>)
  \o Lit("Provide a review summary for the following issues: ") \o DebugIssues(iss)

\* one element of redacted_issues, lib.rs:230-235
RedactedIssueLine(c, issue) ==
  issue.file_path \o Lit(":") \o Lit(ToString(issue.line_number)) \o Lit(" ")
  \o issue.title \o Lit(" - ") \o redact_text(c, issue.description)

\* the prompt passed to generate, lib.rs:228-246
PromptOf(c, iss, ctxs) ==
  Lit("Provide a review summary for the following issues:\n")
  \o Join([k \in DOMAIN iss |-> RedactedIssueLine(c, iss[k])], Lit("\n"))
  \o Lit("\nContext:\n")
  \o Join([k \in DOMAIN ctxs |-> redact_text(c, ctxs[k])], Lit("\n"))

\* at most one context per issue: a failed retrieval adds none
InitPrompt ==
  /\ redCfg \in {[enabled |-> e, patterns |-> ps] :
                   e \in BOOLEAN, ps \in SeqsUpTo(PatternSamples, MaxPatterns)}
  /\ prIssues \in SeqsUpTo(PromptIssues, MaxPromptIssues)
  /\ prContexts \in SeqsUpTo(PromptTexts, Len(prIssues))
  /\ prDraft = <<>> /\ prompt = <<>> /\ prSent = <<>> /\ qpc = "found"
  /\ redIn = <<>> /\ redOut = <<>> /\ rpc = "idle" /\ redTwice = <<>>
  /\ EngineIdle /\ DiffIdle /\ ScanIdle /\ ParseIdle /\ IndexIdle
  /\ ConvIdle /\ RegIdle /\ IgnIdle

promptRest ==
  <<engineVars, diffVars, scanVars, redactVars, parseVars, indexVars, convVars, regVars,
    ignVars, prIssues, prContexts>>

DraftPrompt ==
  /\ qpc = "found"
  /\ prDraft' = DraftOf(prIssues, prContexts)
  /\ qpc' = "drafted"
  /\ UNCHANGED <<prompt, prSent, promptRest>>

RedactPrompt ==
  /\ qpc = "drafted"
  /\ prompt' = PromptOf(redCfg, prIssues, prContexts)
  /\ qpc' = "built"
  /\ UNCHANGED <<prDraft, prSent, promptRest>>

CallGenerate ==
  /\ qpc = "built"
  /\ prSent' = Append(prSent, prompt)
  /\ qpc' = "sent"
  /\ UNCHANGED <<prDraft, prompt, promptRest>>

NextPrompt == DraftPrompt \/ RedactPrompt \/ CallGenerate

SpecPrompt == InitPrompt /\ [][NextPrompt]_vars

(***************************************************************************)
(* Properties                                                              *)
(***************************************************************************)
IsBudgetErr(r) == ~r.ok /\ r.err = "TokenBudgetExceeded"

\* the added set of a diff segment, and the segments of a path
AddedSetOf(seg) == ChangedLines(ParsedFile(seg).hunks)
InAddedSet(path, line) ==
  \E s \in DOMAIN diff : diff[s].path = path /\ line \in AddedSetOf(diff[s])

\* C1: every issue and every code_quality note of a returned report has a
\* line number in the added set the engine computed for its file from the
\* diff; nothing is reported for a file that is not in the diff.
C1_OnlyAddedLinesReported ==
  result.ok =>
    /\ \A k \in DOMAIN result.issues :
         InAddedSet(result.issues[k].file_path, result.issues[k].line_number)
    /\ \A k \in DOMAIN result.code_quality :
         InAddedSet(result.code_quality[k].file_path, result.code_quality[k].line_number)

\* C1 witness: a report with issues and notes, for a diff one of whose
\* files has a secret on a line outside its added set
C1_Witness ==
  /\ result.ok /\ result.issues # <<>> /\ result.code_quality # <<>>
  /\ cfg.rules["secrets"].enabled
  /\ \E s \in DOMAIN diff :
       /\ Retained(cfg, diff[s].path)
       /\ \E i \in DOMAIN disk.tree[diff[s].path].content :
            /\ "secret" \in disk.tree[diff[s].path].content[i].hit
            /\ i \notin AddedSetOf(diff[s])

\* position in the new file of the i-th body line of a hunk: new_start plus
\* the number of earlier body lines that are lines of the new file
NewFilePos(h, i) ==
  h.new_start + Cardinality({j \in 1..(i - 1) : h.raw[j] \in {"+", " ", ""}})

\* C2: for every hunk the parser accepts, the line numbers the engine records
\* for the Added lines are their 1-based positions in the new file, also with
\* "\ No newline at end of file" markers and blank context lines in the hunk.
C2_AddedLineNumbersAreNewFilePositions ==
  dpc = "done" =>
    changed_lines = {NewFilePos(hunkIn, i) : i \in {j \in DOMAIN hunkIn.raw : hunkIn.raw[j] = "+"}}

\* a line that makes the scanner emit when nothing is suppressed
Triggers(sc, line, idx) ==
  LineIssues(sc, "f.go", 1, line, <<>>, DefaultCfg, idx) # <<>>

\* C3: a line that triggers rule R and is the target of a directive naming R
\* gets no issue from R's scan.
C3_SuppressedFindingNotEmitted ==
  spc = "done" =>
    \A ln \in DOMAIN scanIn.content :
      (/\ Triggers(scanWho, scanIn.content[ln], scanIn.index)
       /\ find_ignore(parse_ignore_directives(scanIn.content), ln, RuleId(scanWho)))
      => \A k \in DOMAIN scanOut : scanOut[k].line_number # ln

\* C4: with a remote provider and max_per_run set, when the tokens used are
\* >= max before the provider call, run fails with TokenBudgetExceeded{used,
\* max} and generate is not invoked.
C4_BudgetCheckedBeforeCall ==
  [][(/\ pc = "budget" /\ cfg.provider # "null"
      /\ cfg.max_per_run # NoBudget /\ used >= cfg.max_per_run)
     => (/\ result' = [ok |-> FALSE, err |-> "TokenBudgetExceeded",
                       used |-> used, max |-> cfg.max_per_run]
         /\ generateCalls' = generateCalls)]_vars

\* C4 witness: OpenAI provider, max_per_run = 0: the run has failed with
\* used = 0, max = 0 and no request was sent
C4_Witness ==
  /\ cfg.provider = "openai" /\ cfg.max_per_run = 0 /\ pc = "run_done"
  /\ IsBudgetErr(result) /\ result.used = 0 /\ result.max = 0 /\ generateCalls = 0

ValidPatterns(rc) == {q \in Range(rc.patterns) : RegexCompiles(q)}
SpanOf(q, i) == i..(i + Len(q) - 1)

SeverityOrder == <<"low", "medium", "high", "critical">>
SevPos(sv) == CHOOSE i \in DOMAIN SeverityOrder : SeverityOrder[i] = sv
ReachesThreshold ==
  LET th == IF args.fail_on # None THEN args.fail_on ELSE cfg.fail_on
  IN \E k \in DOMAIN result.issues : SevPos(result.issues[k].severity) >= SevPos(th)

\* C7: check exits 1 exactly when its execution succeeded and some reported
\* issue has severity >= the threshold (--fail-on if given, else the config's
\* fail-on); 0 exactly when it succeeded and no issue reaches the threshold;
\* 2 exactly when it failed with EngineError::Config; 3 for every other failure.
C7_ExitCodes ==
  pc = "exited" =>
    /\ exitCode = 1 <=> (execResult.ok /\ ReachesThreshold)
    /\ exitCode = 0 <=> (execResult.ok /\ ~ReachesThreshold)
    /\ exitCode = 2 <=> (~execResult.ok /\ execResult.engine /\ execResult.err = "Config")
    /\ exitCode = 3 <=> (~execResult.ok /\ ~(execResult.engine /\ execResult.err = "Config"))

PathOrder == <<"a.go", "b.go", "w1.go", "w2.go", "w3.go", "w4.go", "w5.go", "w6.go">>
PathPos(pt) == CHOOSE i \in DOMAIN PathOrder : PathOrder[i] = pt

\* x may precede y: severity descending, then path ascending, then line ascending
MayPrecede(x, y) ==
  \/ SevPos(x.severity) > SevPos(y.severity)
  \/ /\ x.severity = y.severity
     /\ \/ PathPos(x.file_path) < PathPos(y.file_path)
        \/ x.file_path = y.file_path /\ x.line_number <= y.line_number

\* C8: the issues of a returned report are ordered by severity descending,
\* then file path ascending, then line number ascending.
C8_IssuesSorted ==
  result.ok =>
    \A i, j \in DOMAIN result.issues :
      i < j => MayPrecede(result.issues[i], result.issues[j])

\* Added + Removed body lines of a diff segment
SegChurn(seg) ==
  LET n(k) == Cardinality({i \in DOMAIN seg.hunks[k].raw : seg.hunks[k].raw[i] \in {"+", "-"}})
      sum[k \in 0..Len(seg.hunks)] == IF k = 0 THEN 0 ELSE sum[k - 1] + n(k)
  IN sum[Len(seg.hunks)]


RetainedSegs == {s \in DOMAIN diff : diff[s].path \in cfg.allow /\ diff[s].path \notin cfg.deny}

\* risk of a retained segment: severity_weight * issue_count + churn_weight * churn
SegRisk(s) ==
  cfg.sev_w * Cardinality({k \in DOMAIN result.issues :
                             result.issues[k].file_path = diff[s].path})
  + cfg.churn_w * SegChurn(diff[s])

\* C9: at most 5 hotspots; each is a retained file with its risk, which is
\* strictly positive; risks do not increase along the list; no omitted file
\* has a strictly higher risk than a listed one.
C9_Hotspots ==
  result.ok =>
    LET hs == result.hotspots
        listed == {hs[i].path : i \in DOMAIN hs}
    IN /\ Len(hs) <= 5
       /\ \A i \in DOMAIN hs :
            /\ \E s \in RetainedSegs : diff[s].path = hs[i].path /\ hs[i].risk = SegRisk(s)
            /\ hs[i].risk > 0
       /\ \A i, j \in DOMAIN hs : i < j => hs[i].risk >= hs[j].risk /\ hs[i].path # hs[j].path
       /\ \A s \in RetainedSegs :
            diff[s].path \notin listed =>
              \A i \in DOMAIN hs : SegRisk(s) <= hs[i].risk

\* C9 witness: six retained files with positive risk, not all equal, five listed
C9_Witness ==
  /\ result.ok /\ Len(result.hotspots) = 5
  /\ Cardinality({s \in RetainedSegs : SegRisk(s) > 0}) = 6
  /\ result.hotspots[1].risk > result.hotspots[5].risk
  /\ result.issues # <<>>

\* C10: when two runs with the same diff, config and filesystem both return
\* a report, the second report is identical to the first.
C10_RerunIdentical ==
  (runNo = 2 /\ pc = "run_done" /\ result.ok /\ first.ok) => result = first

\* paths of the diff segments that match allow and do not match deny, in order
ReviewablePaths ==
  LET keep(s) == diff[s].path \in cfg.allow /\ diff[s].path \notin cfg.deny
      F[s \in 0..Len(diff)] ==
        IF s = 0 THEN <<>>
        ELSE IF keep(s) THEN Append(F[s - 1], diff[s].path) ELSE F[s - 1]
  IN F[Len(diff)]
Reviewable(path) == path \in cfg.allow /\ path \notin cfg.deny

\* C11: the files the scan loop reads and scans are exactly the changed files
\* whose path matches allow and not deny; a file matching deny is never
\* read (a missing denied file raises no Io error) and contributes no issue,
\* no code_quality note and no hotspot, also when it matches allow.
C11_DenyPrecedence ==
  /\ pc \in {"scan", "rag", "budget", "post"} =>
       [k \in DOMAIN files |-> files[k].path] = ReviewablePaths
  /\ \A k \in DOMAIN files : Reviewable(files[k].path)
  /\ \A k \in DOMAIN issues : Reviewable(issues[k].file_path)
  /\ \A k \in DOMAIN code_quality : Reviewable(code_quality[k].file_path)
  /\ \A k \in DOMAIN hotspots : Reviewable(hotspots[k].path)
  /\ (~result.ok /\ result.err = "Io") =>
       \E s \in DOMAIN diff : Reviewable(diff[s].path) /\ ~disk.tree[diff[s].path].exists

\* C11 witness: a report with issues for a diff holding a file that matches
\* allow and deny and is missing from disk
C11_Witness ==
  /\ pc = "run_done" /\ result.ok /\ result.issues # <<>>
  /\ \E s \in DOMAIN diff :
       /\ diff[s].path \in cfg.allow /\ diff[s].path \in cfg.deny
       /\ ~disk.tree[diff[s].path].exists

PatternTouchesPlaceholder(rc) ==
  \E q \in ValidPatterns(rc) :
    \E k \in DOMAIN q : \E j \in DOMAIN REDACTION_PLACEHOLDER :
      q[k] = REDACTION_PLACEHOLDER[j].ch

BodyKinds(body) ==
  [i \in DOMAIN body |->
     CASE body[i] = "+" -> "Added" [] body[i] = "-" -> "Removed" [] OTHER -> "Context"]

\* C13: parse returns one ChangedFile per "diff --git" header, in input
\* order, with the header's b/ path and exactly the hunks of that segment; a
\* segment without the ---/+++ marker pair yields a ChangedFile with empty
\* hunks, not an error, also when other segments follow.
C13_OneFilePerSegment ==
  ppc = "done" =>
    /\ parseOut.ok
    /\ Len(parseOut.files) = Len(segsIn)
    /\ \A s \in DOMAIN segsIn :
         /\ parseOut.files[s].path = segsIn[s].path
         /\ Len(parseOut.files[s].hunks) = Len(segsIn[s].bodies)
         /\ \A k \in DOMAIN segsIn[s].bodies :
              parseOut.files[s].hunks[k].lines = BodyKinds(segsIn[s].bodies[k])

CountKinds(lines, kinds) == Cardinality({i \in DOMAIN lines : lines[i] \in kinds})

\* C14: in every Hunk parse returns, Added + Context lines number new_lines
\* and Removed + Context lines number old_lines (an elided count being 1).
C14_HunkCountsMatchHeader ==
  (ppc = "done" /\ parseOut.ok) =>
    \A f \in DOMAIN parseOut.files : \A k \in DOMAIN parseOut.files[f].hunks :
      LET h == parseOut.files[f].hunks[k]
      IN /\ CountKinds(h.lines, {"Added", "Context"}) = h.new_lines
         /\ CountKinds(h.lines, {"Removed", "Context"}) = h.old_lines

\* C15: for an empty diff run returns right after parsing: an Ok report with
\* no issues, no notes, no hotspots and a summary stating "Reviewed 0 files";
\* no scan, no provider call and no token-budget error, whatever the
\* provider and the budget.
C15_EmptyDiffReturnsEarly ==
  diff = <<>> =>
    /\ generateCalls = 0
    /\ pc \notin {"scan", "rag", "budget", "post"}
    /\ pc = "run_done" =>
         /\ result.ok
         /\ result.issues = <<>> /\ result.code_quality = <<>> /\ result.hotspots = <<>>
         /\ 0 \in result.summary.reviewed

\* C16: under the Null provider the summary of a returned report states the
\* number of files reviewed and names the title of every reported issue.
C16_NullSummaryStatesFilesAndTitles ==
  (cfg.provider = "null" /\ pc = "run_done" /\ result.ok) =>
    /\ Len(ReviewablePaths) \in result.summary.reviewed
    /\ \A k \in DOMAIN result.issues : result.issues[k].title \in result.summary.titles

\* the errors run returns
AbortKinds == {"DiffParser", "Config", "Io", "LlmProvider", "TokenBudgetExceeded"}

\* the retriever has a loaded, non-empty store
RagAnswers ==
  cfg.legacy_index_path # None /\ disk.index.state = "ok" /\ disk.index.docs > 0

\* C17: run returns no Rag error; when retrieval fails (index missing,
\* unloadable or empty) the issues stay and only the context snippets are
\* missing; a diff parse error, a bad glob, an unreadable retained file, a
\* provider error or a budget error ends run with that error and no report.
C17_OnlyRagFailuresRecovered ==
  /\ (pc \in {"budget", "post"} \/ (pc = "run_done" /\ result.ok)) =>
       Len(contexts) = IF RagAnswers THEN Len(issues) ELSE 0
  /\ pc = "run_done" =>
       /\ ~result.ok => result.err \in AbortKinds
       /\ result.ok => result.issues = issues
       /\ ~ParsedOk(diff) => result = EngineErr("DiffParser")
       /\ (ParsedOk(diff) /\ ~cfg.globs_valid) => result = EngineErr("Config")
       /\ (ParsedOk(diff) /\ cfg.globs_valid
             /\ \E k \in DOMAIN ReviewablePaths : ~disk.tree[ReviewablePaths[k]].exists)
          => result = EngineErr("Io")
       /\ (result.ok /\ cfg.max_per_run # NoBudget) => used <= cfg.max_per_run
       /\ (~result.ok /\ result.err \in {"LlmProvider", "TokenBudgetExceeded"}) =>
            /\ ParsedOk(diff) /\ cfg.globs_valid
            /\ \A k \in DOMAIN ReviewablePaths : disk.tree[ReviewablePaths[k]].exists

\* a report with issues and no snippet, from an index file that does not load
C17_Witness ==
  /\ pc = "run_done" /\ result.ok /\ result.issues # <<>> /\ contexts = <<>>
  /\ cfg.legacy_index_path # None /\ disk.index = CorruptIndex

\* the files the walk can meet
IndexedPaths == UserPaths \cup {IndexPath}

\* the file now at path p of the indexed root
OnDiskNow(p) == TreeAt(repo, idxCfg, idxFile, p)

DocsFor(docs, p) == {k \in DOMAIN docs : docs[k].filename = p}

\* the run's store has exactly one document for p when p is a candidate file
\* on disk and none otherwise; that document is the previous index's entry
\* exactly when the entry has the file's modified time, and is built from
\* the file's content otherwise
DocumentAsClaimed(p) ==
  LET file == OnDiskNow(p)
      old == IF idxPrev.state = "ok" THEN idxPrev.docs ELSE <<>>
      same == \E k \in DocsFor(old, p) : old[k].modified = file.modified
  IN IF file.exists /\ Candidate(idxCfg, p)
     THEN /\ Cardinality(DocsFor(idxNew, p)) = 1
          /\ p \in embedded <=> ~same
          /\ \A k \in DocsFor(idxNew, p) :
               IF same THEN \E j \in DocsFor(old, p) : idxNew[k] = old[j]
               ELSE idxNew[k] = Document(p, file.content, file.modified)
     ELSE DocsFor(idxNew, p) = {}

\* C18: when index_repository(force = false) returns, after any creations,
\* modifications and deletions between runs, the returned store is the
\* persisted one and holds one document per candidate file on disk and none
\* for any other path; a document is the previous index's entry exactly when
\* that entry has the file's modified time, and is re-ingested otherwise.
C18_OneDocumentPerCandidate ==
  (ipc = "written" /\ ~force) =>
    /\ idxFile.state = "ok" /\ idxFile.docs = idxNew
    /\ \A p \in IndexedPaths : DocumentAsClaimed(p)

\* the same for the files other than the index file
C18_UserFilesIndexed ==
  (ipc = "written" /\ ~force) =>
    /\ idxFile.state = "ok" /\ idxFile.docs = idxNew
    /\ \A p \in UserPaths : DocumentAsClaimed(p)

\* C19: a run with force = false that follows a run with no change to the
\* repository in between re-embeds no file and persists the blob the
\* earlier run persisted, wherever the output path lies.
C19_SecondRunIsNoOp ==
  (ipc = "written" /\ ~force /\ idxRuns >= 1 /\ repo = repoAtRun /\ idxPrev.state = "ok") =>
    embedded = {} /\ idxFile.docs = idxPrev.docs

\* the same with the output path outside the indexed root
C19_OutsideRootNoOp ==
  (ipc = "written" /\ ~force /\ idxRuns >= 1 /\ repo = repoAtRun /\ idxPrev.state = "ok"
     /\ ~idxCfg.inside) =>
    embedded = {} /\ idxFile.docs = idxPrev.docs

\* C20: the file at the index path is at every moment, also while a run is
\* writing it or after a run was stopped, the complete blob that was there
\* when the run started or the complete blob of the run's documents.
C20_IndexFileNeverPartial ==
  /\ idxFile.state # "partial"
  /\ ipc \in {"walk", "save", "writing", "written"} =>
       idxFile = idxPrev \/ (idxFile.state = "ok" /\ idxFile.docs = idxNew)

\* C21: a run of index_repository(force = false) that finds an existing but
\* undeserializable file at the output path goes on as if the file were
\* absent: it fails only if the run over an absent index would fail too.
C21_UndeserializableIndexAsAbsent ==
  (ipc = "failed" /\ ~force /\ idxPrev.state \notin {"absent", "ok"}) =>
    ~WalkRepo(repo, idxCfg, NoBlob, FALSE).ok

\* the path the [index] table names, else the legacy top-level index-path
ResolvedIndexPath ==
  IF cfg.index # None THEN cfg.index ELSE cfg.legacy_index_path

\* C22: run's retriever loads the index from the resolved path, the one the
\* conventions rule reads: when that path names a loadable, non-empty index,
\* every issue gets its context snippet, also when only the [index] table
\* names the path.
C22_RunUsesResolvedIndexPath ==
  (pc \in {"budget", "post"} /\ ResolvedIndexPath # None
     /\ disk.index.state = "ok" /\ disk.index.docs > 0) =>
    Len(contexts) = Len(issues)

\* C23: in one run the conventions baseline is derived from the index at
\* most once and all scanned files are judged against the same baseline,
\* whatever happens to the index file during the run.
C23_BaselineDerivedOnce ==
  /\ convDerived <= 1
  /\ \A i, j \in DOMAIN convUsed : convUsed[i] = convUsed[j]

\* the same for the scanner that caches its baseline only
C23_CachedBaselineOnly ==
  convWho = "conventions" =>
    /\ convDerived <= 1
    /\ \A i, j \in DOMAIN convUsed : convUsed[i] = convUsed[j]

\* once the cache holds a baseline, later files get that baseline
C23_CacheKeptOnceFilled ==
  convWho = "conventions" =>
    /\ convDerived <= 1
    /\ \A i, j \in DOMAIN convUsed : (i < j /\ convUsed[i].some) => convUsed[j] = convUsed[i]

\* how often a scanner name occurs among the scanners of thread t
Occurrences(t, name) ==
  Cardinality({k \in DOMAIN tscanners[t] : tscanners[t][k] = name})

\* C24: however the constructions interleave, the built-in registration
\* runs once and is complete before any lookup, some thread can always step
\* until all are through, and each engine gets one scanner per enabled rule
\* and none for a disabled one.
C24_RegistrationOnceBeforeLookup ==
  /\ regRuns <= 1
  /\ \A t \in DOMAIN tpc :
       /\ tpc[t] \in {"lock", "lookup", "done"} =>
            onceState = "done" /\ registry = Scanners
       /\ tpc[t] = "done" =>
            \A name \in Scanners :
              Occurrences(t, name) = IF name \in tcfg[t] THEN 1 ELSE 0
  /\ (\E t \in DOMAIN tpc : tpc[t] # "done") => ENABLED NextReg

\* all constructions are through after one registration: an engine with
\* every rule enabled holds five scanners, one with two rules holds two
C24_Witness ==
  /\ tpc # <<>> /\ \A t \in DOMAIN tpc : tpc[t] = "done"
  /\ regRuns = 1
  /\ \E t, u \in DOMAIN tpc : tcfg[t] = Scanners /\ tcfg[u] = {"secrets", "server-xss-go"}
                               /\ Len(tscanners[t]) = 5 /\ Len(tscanners[u]) = 2

CodeLinesAfter(content, i) == {j \in DOMAIN content : j > i /\ ~content[j].comment}

\* the line a directive on line i is stated to apply to: its own line when
\* it trails code, else the next line that is not comment-only (0: none)
StatedTarget(content, i) ==
  IF ~content[i].comment THEN i
  ELSE IF CodeLinesAfter(content, i) = {} THEN 0
       ELSE CHOOSE j \in CodeLinesAfter(content, i) :
              \A k \in CodeLinesAfter(content, i) : j <= k

DirectiveLines(content) == {i \in DOMAIN content : content[i].dir # None}

\* C27: the map parse_ignore_directives returns has entries at exactly the
\* target lines of the directives, a directive on a comment-only line
\* targeting the next line that is not comment-only, one trailing code its
\* own line; the entry of a line names the rules of the directives aimed at it.
C27_DirectiveTargets ==
  gpc = "done" =>
    /\ DOMAIN ignMap = {StatedTarget(ignIn, i) : i \in DirectiveLines(ignIn)} \ {0}
    /\ \A t \in DOMAIN ignMap :
         ignMap[t] = {ignIn[i].dir : i \in {j \in DirectiveLines(ignIn) :
                                              StatedTarget(ignIn, j) = t}}

\* the same for texts in which no comment-only line follows a directive's
\* comment-only line and no directive sits on a last, comment-only line
C27_SingleCommentDirectives ==
  (gpc = "done"
     /\ \A i \in DirectiveLines(ignIn) :
          ignIn[i].comment => (i < Len(ignIn) /\ ~ignIn[i + 1].comment)) =>
    /\ DOMAIN ignMap = {StatedTarget(ignIn, i) : i \in DirectiveLines(ignIn)} \ {0}
    /\ \A t \in DOMAIN ignMap :
         ignMap[t] = {ignIn[i].dir : i \in {j \in DirectiveLines(ignIn) :
                                              StatedTarget(ignIn, j) = t}}

\* C28: whichever built-in rule scans whichever content, the issues it
\* returns are in strictly ascending line-number order, so no line carries
\* two issues of the rule.
C28_StrictlyAscendingLines ==
  spc = "done" =>
    \A i, j \in DOMAIN scanOut :
      i < j => scanOut[i].line_number < scanOut[j].line_number

\* the order is ascending when equal line numbers are allowed
C28_AscendingLines ==
  spc = "done" =>
    \A i, j \in DOMAIN scanOut :
      i < j => scanOut[i].line_number <= scanOut[j].line_number

\* every rule but server-xss-go returns at most one issue per line
C28_OnePerLineButXss ==
  (spc = "done" /\ scanWho # "server-xss-go") =>
    \A i, j \in DOMAIN scanOut :
      i < j => scanOut[i].line_number < scanOut[j].line_number

\* C29: with redaction enabled, no prompt passed to generate contains a
\* substring matching a configured pattern: every issue line and every
\* retrieval snippet in it went through the redactor before the call.
C29_SentPromptHoldsNoMatch ==
  redCfg.enabled =>
    \A n \in DOMAIN prSent : \A q \in ValidPatterns(redCfg) :
      \A i \in DOMAIN prSent[n] : ~MatchAt(prSent[n], q, i)

\* no configured valid pattern matches the path or the title of an issue
PathsAndTitlesClean ==
  \A k \in DOMAIN prIssues : \A q \in ValidPatterns(redCfg) :
    /\ \A i \in DOMAIN prIssues[k].file_path : ~MatchAt(prIssues[k].file_path, q, i)
    /\ \A i \in DOMAIN prIssues[k].title : ~MatchAt(prIssues[k].title, q, i)

\* when no pattern matches a path or a title, every match left in a prompt
\* that was sent overlaps an inserted placeholder
C29_DescriptionsAndContextsRedacted ==
  (redCfg.enabled /\ PathsAndTitlesClean) =>
    \A n \in DOMAIN prSent : \A q \in ValidPatterns(redCfg) :
      \A i \in DOMAIN prSent[n] :
        MatchAt(prSent[n], q, i) => \E k \in SpanOf(q, i) : prSent[n][k].ins

\* the one prompt generate receives is the second, redacted one
C29_OnlyTheRedactedPromptIsSent ==
  /\ Len(prSent) <= 1
  /\ \A n \in DOMAIN prSent : prSent[n] = PromptOf(redCfg, prIssues, prContexts)

\* the findings of scanner sc on the i-th filtered file that survive the
\* added-line filter
Surviving(sc, i) ==
  Range(Retain(Scan(sc, files[i].path, disk.tree[files[i].path].content, cfg,
                    ScannerIndex(cfg, disk)),
               ChangedLines(files[i].hunks)))

\* the files the scan loop of the current run has handled
ScannedFiles == {i \in DOMAIN files : i < fileIdx}

ConventionTitle == "Convention deviation detected"

\* C30: every surviving finding of the conventions rule is in code_quality,
\* as path, line and description, and never in issues; every surviving
\* finding of another rule is in issues and never in code_quality.  This
\* holds of run's vectors during the scan and of the report it returns.
C30_ConventionFindingsOnlyInCodeQuality ==
  /\ \A i \in ScannedFiles : \A sc \in Range(load_enabled_scanners(cfg)) :
       \A x \in Surviving(sc, i) :
         IF sc = "convention-deviation"
         THEN Note(x) \in Range(code_quality) /\ x \notin Range(issues)
         ELSE x \in Range(issues) /\ Note(x) \notin Range(code_quality)
  /\ \A k \in DOMAIN issues : issues[k].title # ConventionTitle
  /\ \A k \in DOMAIN code_quality : code_quality[k].description \in {"conv", "fn"}
  /\ result.ok =>
       /\ \A k \in DOMAIN result.issues : result.issues[k].title # ConventionTitle
       /\ \A k \in DOMAIN result.code_quality :
            result.code_quality[k].description \in {"conv", "fn"}

\* C30 witness: a returned report with a conventions finding in code_quality
\* and a finding of another rule in issues, both on the same file
C30_Witness ==
  /\ result.ok /\ pc = "run_done"
  /\ \E a \in DOMAIN result.code_quality : \E b \in DOMAIN result.issues :
       result.code_quality[a].file_path = result.issues[b].file_path

\* a report whose only findings are conventions findings never exits with 1
C30_ConventionsNeverFail ==
  (pc = "exited" /\ execResult.ok /\ result.ok /\ result.issues = <<>>) => exitCode = 0

====
